---- MODULE Spec2Model ----
(***************************************************************************)
(* Multi-session WhatsApp orchestration layer of ddw-leadmaster-system.    *)
(*                                                                         *)
(* MessageSender (outbound queue, rate limiter, retry), ConnectionManager  *)
(* and VenomBotAdapter (session life cycle) and the WhatsAppService facade *)
(* are modelled as state machines.  JavaScript runs every handler to its   *)
(* next `await` without interruption, so one action is the code between    *)
(* two suspension points of a handler.                                     *)
(***************************************************************************)
EXTENDS Integers, Sequences, FiniteSets, TLC

(***************************************************************************)
(* Bounds of the model                                                     *)
(***************************************************************************)
MaxTime == 2          \* the clock runs over 0..MaxTime
MaxMsgs == 2          \* message ids 1..MaxMsgs
MaxLoops == 2         \* slots for concurrently running drain loops
MaxImm == 2           \* sendImmediateMessage calls in flight per session
MaxImmCalls == 3      \* sendImmediateMessage calls counted per rate-limit window
MaxCalls == 2         \* session life-cycle calls in flight
MaxQrEvents == 2      \* pairing events the adapter issues per session

(***************************************************************************)
(* Configuration (time in clock ticks)                                     *)
(***************************************************************************)
MaxMessagesPerMinute == 1
MessageDelay == 1
RetryMultiplier == 2
RetryDelay == 2
MaxRetries == 2
MaxQueueSize == 2
SendTimeout == 1
QueueTimeout == 1
RateWindow == 2
MaxSessions == 1
ReconnectAttempts == 2
SessionTimeout == 1
MaxMessageLength == 4096
QrTimeout == 1

Sessions == {"s1", "s2"}
SenderSessions == {"s1"}
MsgIds == 1..(MaxMsgs + 1)   \* the capacity specification enqueues one message more
LoopIds == 1..MaxLoops
CallIds == 1..MaxCalls
Priorities == {"normal", "high"}
RetryChoices == {1, 2}
SkipChoices == {FALSE}
Payloads == {[base64 |-> "b1", ascii |-> "a1", url |-> "u1"],
             [base64 |-> "b2", ascii |-> "a2", url |-> ""],
             [base64 |-> "", ascii |-> "", url |-> ""]}
QrFormats == {"dataURL", "data-url", "buffer", "base64", "ascii", "original", "all", "svg"}
Recipients == {"", "5491100000000"}
BodyLengths == {0, 1, MaxMessageLength, MaxMessageLength + 1}

VARIABLES
  now,               \* Date.now()
  connections,       \* ConnectionManager.connections: sessionId -> connectionData
  instances,         \* VenomBotAdapter.instances: sessionId -> instanceData
  calls,             \* createSession / closeSession / reconnectSession calls in flight
  lastResult,        \* outcome of the call that finished in the last step
  closedIds,         \* history: ids whose last life-cycle event is a completed close
  sessionsCache,     \* SessionStore.sessionsCache: sessionId -> status
  activeListeners,   \* MessageListener.activeListeners
  qrCache,           \* QRCodeHandler.qrCache: sessionId -> qrData
  qrPending,         \* processQRCode calls awaiting _generateQRImages
  qrIssued,          \* history: pairing events the adapter has issued, per session
  qrResult,          \* what the getQRCode call of the last step returned
  messageQueues,     \* sessionId -> sequence of message ids
  msgs,              \* the message objects, by id
  rateLimiters,      \* sessionId -> { count, resetAt }
  processingStatus,  \* sessionId -> { active, paused }
  loops,             \* sessionId -> running _processQueue invocations
  immCalls,          \* sessionId -> sendImmediateMessage calls awaiting the adapter
  immStats,          \* history: immediate sends of the current rate-limit window
  tries,             \* history: _sendQueuedMessage invocations per message
  failedEvents,      \* history: messageFailed events per message
  ahead,             \* history: normal messages queued when a high one arrived
  gone,              \* history: how a message left its queue other than by a shift
                     \* after its own attempt: "cleared", "swept" or "dropped"
  sendResult,        \* what the sendMessage or sendImmediateMessage call of the
                     \* last step returned or threw before its first await
  pauseCalled,       \* history: pauseSession(id) was called and resumeSession(id)
                     \* has not been called since
  env,               \* process.env, as far as the message filters go
  config,            \* MessageListener.config: the filter switches
  verdict,           \* what the _shouldProcessMessage call of the last step returned
  handlers,          \* _handleIncomingMessage invocations in flight
  usersCache,        \* MessageListener.usersCache, in insertion order
  userRows,          \* the phone numbers that have a row in ll_usuarios_wa
  userInserts,       \* history: INSERTs into ll_usuarios_wa issued, per phone number
  arrived            \* history: inbound messages the adapter has delivered

listenerVars == <<env, config, verdict, handlers, usersCache, userRows, userInserts,
                  arrived>>
connRest == <<instances, calls, lastResult, closedIds, sessionsCache,
              activeListeners, qrCache, qrPending, qrIssued, qrResult, listenerVars>>
connVars == <<connections, connRest>>
senderVars == <<messageQueues, msgs, rateLimiters, processingStatus,
                loops, immCalls, immStats, tries, failedEvents, ahead, gone>>
vars == <<now, connVars, senderVars, sendResult, pauseCalled>>

NoMsg == [priority |-> "normal", attempts |-> 0, maxRetries |-> 0, status |-> "none",
          expiresAt |-> 0, skipRateLimit |-> FALSE, sessionId |-> "none"]
NoLimiter == [exists |-> FALSE, count |-> 0, resetAt |-> 0]
NoStatus == [exists |-> FALSE, active |-> FALSE, paused |-> FALSE]
NoLoop == [pc |-> "none", cur |-> 0, wakeAt |-> 0, sendable |-> FALSE]
NoConnection == [present |-> FALSE, status |-> "none", reconnectAttempts |-> 0,
                 lastActivity |-> 0]
NoInstance == [present |-> FALSE, client |-> FALSE]
NoCall == [op |-> "none", sessionId |-> "none", pc |-> "none", facade |-> FALSE,
           holdsConn |-> FALSE, holdsInst |-> FALSE, repeated |-> FALSE, auto |-> FALSE,
           interrupted |-> FALSE]
NoResult == [op |-> "none", sessionId |-> "none", facade |-> FALSE, res |-> "none",
             repeated |-> FALSE, closeFailed |-> FALSE]
NoStats == [ok |-> 0, rejected |-> 0, failed |-> 0]
NoSend == [res |-> "none", sessionId |-> "none", queuePosition |-> 0]
NoPayload == [base64 |-> "", ascii |-> "", url |-> ""]
NoImages == [dataURL |-> <<>>, base64 |-> <<>>, buffer |-> <<>>]
NoQr == [present |-> FALSE, attempts |-> 0, expiresAt |-> 0, original |-> NoPayload,
         images |-> NoImages]
NoQrResult == [res |-> "none", sessionId |-> "none", format |-> "none", attempts |-> 0,
               data |-> <<>>]

\* ConnectionManager.getSessionStatus
GetSessionStatus(s) == IF connections[s].present THEN connections[s].status ELSE "not_found"

Range(f) == {f[x] : x \in DOMAIN f}
RECURSIVE Pow(_, _)
Pow(b, e) == IF e <= 0 THEN 1 ELSE b * Pow(b, e - 1)

(***************************************************************************)
(* MessageSender.  The state of one session of the sender is threaded      *)
(* through the handlers as a record and committed at the end of the step.  *)
(***************************************************************************)
Cur(s) == [q |-> messageQueues[s], rl |-> rateLimiters[s], ps |-> processingStatus[s],
           lp |-> loops[s], is |-> immStats[s], ms |-> msgs, tr |-> tries,
           fe |-> failedEvents, gn |-> gone, la |-> connections[s].lastActivity]

Commit(s, st) ==
  /\ messageQueues' = [messageQueues EXCEPT ![s] = st.q]
  /\ rateLimiters' = [rateLimiters EXCEPT ![s] = st.rl]
  /\ processingStatus' = [processingStatus EXCEPT ![s] = st.ps]
  /\ loops' = [loops EXCEPT ![s] = st.lp]
  /\ immStats' = [immStats EXCEPT ![s] = st.is]
  /\ msgs' = st.ms
  /\ tries' = st.tr
  /\ failedEvents' = st.fe
  /\ gone' = st.gn
  /\ connections' = [connections EXCEPT ![s].lastActivity = st.la]

\* a faulty expiry test that lets every message through
IsExpiredNever(m, t) == FALSE
\* new Date() > message.expiresAt
IsExpired(m, t) == t > m.expiresAt

\* the limit test of _checkRateLimit
UnderLimit(count) == count < MaxMessagesPerMinute

\* a faulty _checkRateLimit that opens the new window one tick late
CheckRateLimitLate(rl, t) ==
  IF ~rl.exists THEN [ok |-> TRUE, rl |-> rl, reset |-> FALSE]
  ELSE IF t > rl.resetAt
       THEN [ok |-> TRUE, rl |-> [rl EXCEPT !.count = 0, !.resetAt = t + RateWindow],
             reset |-> TRUE]
       ELSE [ok |-> UnderLimit(rl.count), rl |-> rl, reset |-> FALSE]
\* _checkRateLimit: the answer, the limiter it leaves behind, and whether it
\* opened a new window
CheckRateLimit(rl, t) ==
  IF ~rl.exists THEN [ok |-> TRUE, rl |-> rl, reset |-> FALSE]
  ELSE IF t >= rl.resetAt
       THEN [ok |-> TRUE, rl |-> [rl EXCEPT !.count = 0, !.resetAt = t + RateWindow],
             reset |-> TRUE]
       ELSE [ok |-> UnderLimit(rl.count), rl |-> rl, reset |-> FALSE]

\* _recordSentMessage
RecordSentMessage(rl, t) ==
  LET r0 == IF rl.exists THEN rl
            ELSE [exists |-> TRUE, count |-> 0, resetAt |-> t + RateWindow]
  IN [r0 EXCEPT !.count = @ + 1]

\* queue.shift()
Shift(q) == IF q = <<>> THEN q ELSE Tail(q)

\* the session checks of ConnectionManager.sendMessage
CanSend(s) == GetSessionStatus(s) = "connected"

(***************************************************************************)
(* _processQueue from the top of its while loop, run by loop l until the   *)
(* next await or the end of the function; the last branch is the call of   *)
(* _sendQueuedMessage up to its Promise.race.                              *)
(***************************************************************************)
RECURSIVE ProcessQueue(_, _, _, _)
ProcessQueue(s, st, l, t) ==
  IF st.q = <<>> \/ st.ps.paused
  THEN [st EXCEPT !.ps.active = FALSE, !.lp[l] = NoLoop]
  ELSE LET id == Head(st.q)
           m == st.ms[id]
           rc == CheckRateLimit(st.rl, t)
       IN IF IsExpired(m, t)
          THEN ProcessQueue(s, [st EXCEPT !.q = Tail(@), !.gn[id] = "dropped"], l, t)
          ELSE IF ~m.skipRateLimit /\ ~rc.ok
          THEN [st EXCEPT !.lp[l] = [pc |-> "ratewait", cur |-> id,
                                     wakeAt |-> st.rl.resetAt, sendable |-> FALSE]]
          ELSE [st EXCEPT !.rl = IF m.skipRateLimit THEN @ ELSE rc.rl,
                          !.is = IF ~m.skipRateLimit /\ rc.reset THEN NoStats ELSE @,
                          !.ms[id].status = "sending",
                          !.tr[id] = @ + 1,
                          !.la = IF CanSend(s) THEN t ELSE @,
                          !.lp[l] = [pc |-> "sending", cur |-> id,
                                     wakeAt |-> t + SendTimeout, sendable |-> CanSend(s)]]

FreeLoop(lp) ==
  CHOOSE l \in LoopIds : lp[l].pc = "none" /\ \A k \in LoopIds : lp[k].pc = "none" => l <= k

\* the test of _startProcessing that keeps a second loop from starting
AlreadyProcessing(ps) == ps.active \/ ps.paused

\* a faulty _startProcessing that forgets `status.active = true`
StartProcessingNoFlag(s, st, t) ==
  LET st1 == IF st.ps.exists THEN st
             ELSE [st EXCEPT !.ps = [exists |-> TRUE, active |-> FALSE, paused |-> FALSE]]
  IN IF AlreadyProcessing(st1.ps)
     THEN st1
     ELSE ProcessQueue(s, st1, FreeLoop(st1.lp), t)
\* _startProcessing
StartProcessing(s, st, t) ==
  LET st1 == IF st.ps.exists THEN st
             ELSE [st EXCEPT !.ps = [exists |-> TRUE, active |-> FALSE, paused |-> FALSE]]
  IN IF AlreadyProcessing(st1.ps)
     THEN st1
     ELSE ProcessQueue(s, [st1 EXCEPT !.ps.active = TRUE], FreeLoop(st1.lp), t)

HasFreeLoop(s) == \E l \in LoopIds : loops[s][l].pc = "none"
FreeId ==
  CHOOSE i \in MsgIds : msgs[i].status = "none" /\ \A j \in MsgIds : msgs[j].status = "none" => i <= j

\* a faulty capacity test that lets one message too many in
QueueFullLate(q) == Len(q) > MaxQueueSize
\* the capacity test of sendMessage
QueueFull(q) == Len(q) >= MaxQueueSize

\* _validateInputs for a recipient and a body of the given length
ValidateInputs(to, len) ==
  IF to = "" THEN "recipient"
  ELSE IF len = 0 THEN "body"
  ELSE IF len > MaxMessageLength THEN "too_long"
  ELSE "ok"

\* the error sendMessage throws before it touches the queue, "ok" if none
SendMessageError(s, to, len) ==
  IF ValidateInputs(to, len) # "ok" THEN ValidateInputs(to, len)
  ELSE IF ~connections[s].present THEN "not_found"
  ELSE IF QueueFull(messageQueues[s]) THEN "queue_full"
  ELSE "ok"

\* a faulty sendMessage that starts the drain loop before it throws
SendMessageFailsLate(s, to, len, prio) ==
  /\ SendMessageError(s, to, len) # "ok"
  /\ HasFreeLoop(s)
  /\ Commit(s, StartProcessing(s, Cur(s), now))
  /\ sendResult' = [res |-> SendMessageError(s, to, len), sessionId |-> s,
                     queuePosition |-> 0]
  /\ UNCHANGED <<now, pauseCalled, connRest, immCalls, ahead>>
\* MessageSender.sendMessage throws: the catch block emits messageError and
\* rethrows
SendMessageFails(s, to, len, prio) ==
  /\ SendMessageError(s, to, len) # "ok"
  /\ sendResult' = [res |-> SendMessageError(s, to, len), sessionId |-> s,
                     queuePosition |-> 0]
  /\ UNCHANGED <<now, pauseCalled, connVars, senderVars>>

\* ids the drain-loop specifications may still hand out
RoomFor(n) == \E i \in 1..n : msgs[i].status = "none"

\* MessageSender.sendMessage: enqueue
SendMessage(s, prio, k, skip) ==
  /\ connections[s].present
  /\ ~QueueFull(messageQueues[s])
  /\ \E i \in MsgIds : msgs[i].status = "none"
  /\ HasFreeLoop(s)
  /\ LET id == FreeId
         m == [priority |-> prio, attempts |-> 0, maxRetries |-> k, status |-> "queued",
               expiresAt |-> now + QueueTimeout, skipRateLimit |-> skip, sessionId |-> s]
         st0 == Cur(s)
         st1 == [st0 EXCEPT !.ms[id] = m,
                            !.q = IF prio = "high" THEN <<id>> \o @ ELSE Append(@, id)]
         st2 == IF ~st1.ps.active THEN StartProcessing(s, st1, now) ELSE st1
     IN /\ Commit(s, st2)
        /\ ahead' = [ahead EXCEPT ![id] =
              IF prio = "high"
              THEN {j \in Range(messageQueues[s]) : msgs[j].priority = "normal"}
              ELSE {}]
  /\ sendResult' = [res |-> "queued", sessionId |-> s,
                     queuePosition |-> Len(messageQueues'[s])]
  /\ UNCHANGED <<now, pauseCalled, connRest, immCalls>>

\* _sendQueuedMessage after the race is won by the adapter's answer, and
\* _processQueue up to the inter-message delay
SendSucceeds(s, l) ==
  /\ loops[s][l].pc = "sending"
  /\ loops[s][l].sendable
  /\ LET id == loops[s][l].cur
         st0 == Cur(s)
         st1 == [st0 EXCEPT !.ms[id].status = "sent",
                            !.rl = IF st0.ms[id].skipRateLimit THEN @
                                   ELSE RecordSentMessage(@, now),
                            !.q = Shift(@),
                            !.lp[l] = [pc |-> "delay", cur |-> id,
                                       wakeAt |-> now + MessageDelay, sendable |-> FALSE]]
     IN Commit(s, st1)
  /\ sendResult' = NoSend
  /\ UNCHANGED <<now, pauseCalled, connRest, immCalls, ahead>>

\* the catch block of _processQueue
HandleFailure(s, st, l, t) ==
  LET id == st.lp[l].cur
      att == st.ms[id].attempts + 1
      st1 == [st EXCEPT !.ms[id].attempts = att, !.ms[id].status = "failed"]
  IN IF att >= st1.ms[id].maxRetries
     THEN ProcessQueue(s, [st1 EXCEPT !.q = Shift(@), !.fe[id] = @ + 1], l, t)
     ELSE [st1 EXCEPT !.lp[l] = [pc |-> "retry", cur |-> id,
                                 wakeAt |-> t + MessageDelay * Pow(RetryMultiplier, att - 1),
                                 sendable |-> FALSE]]

\* ConnectionManager.sendMessage or the adapter throws
SendFails(s, l) ==
  /\ loops[s][l].pc = "sending"
  /\ Commit(s, HandleFailure(s, Cur(s), l, now))
  /\ sendResult' = NoSend
  /\ UNCHANGED <<now, pauseCalled, connRest, immCalls, ahead>>

\* the timeout of the race fires first
SendTimesOut(s, l) ==
  /\ loops[s][l].pc = "sending"
  /\ loops[s][l].sendable
  /\ now >= loops[s][l].wakeAt
  /\ Commit(s, HandleFailure(s, Cur(s), l, now))
  /\ sendResult' = NoSend
  /\ UNCHANGED <<now, pauseCalled, connRest, immCalls, ahead>>

\* a setTimeout of the loop (inter-message delay, retry delay, rate-limit
\* wait) fires and _processQueue goes back to its while condition
TimerFires(s, l) ==
  /\ loops[s][l].pc \in {"delay", "retry", "ratewait"}
  /\ now >= loops[s][l].wakeAt
  /\ Commit(s, ProcessQueue(s, Cur(s), l, now))
  /\ sendResult' = NoSend
  /\ UNCHANGED <<now, pauseCalled, connRest, immCalls, ahead>>

\* a faulty pauseSession that pauses every session of the sender
PauseSessionAll(s) ==
  /\ processingStatus' = [x \in Sessions |->
        IF processingStatus[x].exists THEN [processingStatus[x] EXCEPT !.paused = TRUE]
        ELSE processingStatus[x]]
  /\ pauseCalled' = [pauseCalled EXCEPT ![s] = TRUE]
  /\ sendResult' = NoSend
  /\ UNCHANGED <<now, connVars, messageQueues, msgs, rateLimiters, loops,
                 immCalls, immStats, tries, failedEvents, ahead, gone>>
\* pauseSession: false and no effect for a session without a status entry
PauseSession(s) ==
  /\ processingStatus' = IF processingStatus[s].exists
                          THEN [processingStatus EXCEPT ![s].paused = TRUE]
                          ELSE processingStatus
  /\ pauseCalled' = [pauseCalled EXCEPT ![s] = TRUE]
  /\ sendResult' = NoSend
  /\ UNCHANGED <<now, connVars, messageQueues, msgs, rateLimiters, loops,
                 immCalls, immStats, tries, failedEvents, ahead, gone>>

\* a faulty resumeSession that clears the paused flag and starts no loop
ResumeSessionNoStart(s) ==
  /\ HasFreeLoop(s)
  /\ LET st0 == Cur(s)
         st1 == [st0 EXCEPT !.ps.paused = FALSE]
     IN Commit(s, IF st0.ps.exists THEN st1 ELSE st0)
  /\ pauseCalled' = [pauseCalled EXCEPT ![s] = FALSE]
  /\ sendResult' = NoSend
  /\ UNCHANGED <<now, connRest, immCalls, ahead>>
\* resumeSession: false and no effect for a session without a status entry
ResumeSession(s) ==
  /\ HasFreeLoop(s)
  /\ LET st0 == Cur(s)
         st1 == [st0 EXCEPT !.ps.paused = FALSE]
         st2 == IF ~st1.ps.active THEN StartProcessing(s, st1, now) ELSE st1
     IN Commit(s, IF st0.ps.exists THEN st2 ELSE st0)
  /\ pauseCalled' = [pauseCalled EXCEPT ![s] = FALSE]
  /\ sendResult' = NoSend
  /\ UNCHANGED <<now, connRest, immCalls, ahead>>

ClearMatches(filter, m) ==
  CASE filter = "all" -> TRUE
    [] filter = "failed" -> m.status = "failed"
    [] filter = "pending" -> m.status \in {"queued", "pending"}

\* what clearQueue leaves in the queue
Cleared(q, filter) ==
  LET Keep(id) == ~ClearMatches(filter, msgs[id]) IN SelectSeq(q, Keep)

ClearQueue(s, filter) ==
  /\ Cleared(messageQueues[s], filter) # messageQueues[s]
  /\ messageQueues' = [messageQueues EXCEPT ![s] = Cleared(@, filter)]
  /\ gone' = [i \in MsgIds |->
        IF i \in Range(messageQueues[s]) \ Range(Cleared(messageQueues[s], filter))
        THEN "cleared" ELSE gone[i]]
  /\ sendResult' = NoSend
  /\ UNCHANGED <<now, pauseCalled, connVars, msgs, rateLimiters, processingStatus, loops,
                 immCalls, immStats, tries, failedEvents, ahead>>

\* _cleanupExpiredMessages, run by the five-minute interval timer
CleanupExpiredMessages ==
  LET Keep(id) == ~IsExpired(msgs[id], now)
      swept == [s \in Sessions |-> SelectSeq(messageQueues[s], Keep)]
  IN /\ \E s \in Sessions : \E i \in 1..Len(messageQueues[s]) :
           now > msgs[messageQueues[s][i]].expiresAt
     /\ messageQueues' = swept
     /\ gone' = [i \in MsgIds |->
           IF \E s \in Sessions : i \in Range(messageQueues[s]) \ Range(swept[s])
           THEN "swept" ELSE gone[i]]
     /\ sendResult' = NoSend
     /\ UNCHANGED <<now, pauseCalled, connVars, msgs, rateLimiters, processingStatus, loops,
                    immCalls, immStats, tries, failedEvents, ahead>>

(***************************************************************************)
(* sendImmediateMessage                                                    *)
(***************************************************************************)
ImmInFlight(s) == immCalls[s][TRUE] + immCalls[s][FALSE]
ImmCounted(s) == immStats[s].ok + immStats[s].rejected + immStats[s].failed + immCalls[s][FALSE]

\* up to the await of connectionManager.sendMessage
ImmediateStart(s, skip) ==
  /\ ImmInFlight(s) < MaxImm
  /\ skip \/ ImmCounted(s) < MaxImmCalls
  /\ LET rc == CheckRateLimit(rateLimiters[s], now)
     IN /\ skip \/ rc.ok
        /\ CanSend(s)
        /\ rateLimiters' = [rateLimiters EXCEPT ![s] = IF skip THEN @ ELSE rc.rl]
        /\ immStats' = [immStats EXCEPT ![s] = IF ~skip /\ rc.reset THEN NoStats ELSE @]
        /\ immCalls' = [immCalls EXCEPT ![s][skip] = @ + 1]
        /\ connections' = [connections EXCEPT ![s].lastActivity = now]
  /\ sendResult' = NoSend
  /\ UNCHANGED <<now, pauseCalled, connRest, messageQueues, msgs, processingStatus, loops,
                 tries, failedEvents, ahead, gone>>

\* the rate-limit check throws
ImmediateRejected(s) ==
  /\ ImmCounted(s) < MaxImmCalls
  /\ ~CheckRateLimit(rateLimiters[s], now).ok
  /\ immStats' = [immStats EXCEPT ![s].rejected = @ + 1]
  /\ sendResult' = [res |-> "rate_limit", sessionId |-> s, queuePosition |-> 0]
  /\ UNCHANGED <<now, pauseCalled, connVars, messageQueues, msgs, rateLimiters, processingStatus, loops,
                 immCalls, tries, failedEvents, ahead, gone>>

\* ConnectionManager.sendMessage throws for a session that is absent or not
\* connected, after the rate-limit check has let the call through
ImmediateNotConnected(s, skip) ==
  /\ ~CanSend(s)
  /\ LET rc == CheckRateLimit(rateLimiters[s], now)
     IN /\ skip \/ rc.ok
        /\ rateLimiters' = [rateLimiters EXCEPT ![s] = IF skip THEN @ ELSE rc.rl]
        /\ immStats' = [immStats EXCEPT ![s] = IF ~skip /\ rc.reset THEN NoStats ELSE @]
  /\ sendResult' = [res |-> IF connections[s].present THEN "not_connected" ELSE "not_found",
                     sessionId |-> s, queuePosition |-> 0]
  /\ UNCHANGED <<now, pauseCalled, connVars, messageQueues, msgs, processingStatus, loops,
                 immCalls, tries, failedEvents, ahead, gone>>

\* the adapter answers
ImmediateSent(s, skip) ==
  /\ immCalls[s][skip] > 0
  /\ immCalls' = [immCalls EXCEPT ![s][skip] = @ - 1]
  /\ rateLimiters' = [rateLimiters EXCEPT ![s] = IF skip THEN @ ELSE RecordSentMessage(@, now)]
  /\ immStats' = [immStats EXCEPT ![s].ok = IF skip THEN @ ELSE @ + 1]
  /\ sendResult' = NoSend
  /\ UNCHANGED <<now, pauseCalled, connVars, messageQueues, msgs, processingStatus, loops,
                 tries, failedEvents, ahead, gone>>

\* the adapter throws
ImmediateFails(s, skip) ==
  /\ immCalls[s][skip] > 0
  /\ immCalls' = [immCalls EXCEPT ![s][skip] = @ - 1]
  /\ immStats' = [immStats EXCEPT ![s].failed = IF skip THEN @ ELSE @ + 1]
  /\ sendResult' = NoSend
  /\ UNCHANGED <<now, pauseCalled, connVars, messageQueues, msgs, rateLimiters,
                 processingStatus, loops, tries, failedEvents, ahead, gone>>

Tick ==
  /\ now < MaxTime
  /\ now' = now + 1
  /\ sendResult' = NoSend
  /\ UNCHANGED <<connVars, senderVars, pauseCalled>>

(***************************************************************************)
(* ConnectionManager, VenomBotAdapter, SessionStore and the facade.  The   *)
(* state is threaded through the handlers as a record and committed at the *)
(* end of the step.  A call keeps the connectionData / instanceData object *)
(* it obtained before an await: holdsConn / holdsInst say whether that     *)
(* object is still the one registered in the map.                          *)
(***************************************************************************)
CurConn == [cn |-> connections, in |-> instances, ca |-> calls, lr |-> NoResult,
            ci |-> closedIds, sc |-> sessionsCache, al |-> activeListeners]

CommitConn(cs) ==
  /\ connections' = cs.cn
  /\ instances' = cs.in
  /\ calls' = cs.ca
  /\ lastResult' = cs.lr
  /\ closedIds' = cs.ci
  /\ sessionsCache' = cs.sc
  /\ activeListeners' = cs.al

HasFreeCall == \E c \in CallIds : calls[c].op = "none"
FreeCall ==
  CHOOSE c \in CallIds : calls[c].op = "none" /\ \A d \in CallIds : calls[d].op = "none" => c <= d

\* the call returns or throws
Finish(cs, c, res, closeFailed) ==
  [cs EXCEPT !.lr = [op |-> cs.ca[c].op, sessionId |-> cs.ca[c].sessionId,
                     facade |-> cs.ca[c].facade, res |-> res,
                     repeated |-> cs.ca[c].repeated, closeFailed |-> closeFailed],
             !.ca[c] = NoCall]

\* connections.delete(sessionId)
DeleteConnection(cs, s) ==
  [cs EXCEPT !.cn[s] = NoConnection,
             !.ca = [c \in CallIds |->
                       IF cs.ca[c].sessionId = s THEN [cs.ca[c] EXCEPT !.holdsConn = FALSE]
                       ELSE cs.ca[c]]]

\* instances.delete(sessionId)
DeleteInstance(cs, s) ==
  [cs EXCEPT !.in[s] = NoInstance,
             !.ca = [c \in CallIds |->
                       IF cs.ca[c].sessionId = s THEN [cs.ca[c] EXCEPT !.holdsInst = FALSE]
                       ELSE cs.ca[c]]]

\* connection.status = ... on the object found by connections.get(sessionId)
SetStatus(cs, s, status) ==
  IF cs.cn[s].present THEN [cs EXCEPT !.cn[s].status = status] ELSE cs

\* connection.status = ... on the object the call holds
SetHeldStatus(cs, c, status) ==
  IF cs.ca[c].holdsConn
  THEN [cs EXCEPT !.cn[cs.ca[c].sessionId].status = status,
                  !.cn[cs.ca[c].sessionId].lastActivity = now]
  ELSE cs

\* _setupAdapterListeners: instanceError
InstanceError(cs, s) == SetStatus(cs, s, "error")

\* _setupAdapterListeners: instanceConnected
InstanceConnected(cs, s) ==
  IF cs.cn[s].present
  THEN [cs EXCEPT !.cn[s].status = "connected", !.cn[s].reconnectAttempts = 0,
                  !.cn[s].lastActivity = now]
  ELSE cs

\* MessageListener: sessionClosed -> stopListening
SessionClosed(cs, s) == [cs EXCEPT !.al = @ \ {s}]

\* VenomBotAdapter.createInstance up to `await create(...)`
CreateInstanceStart(cs, c, s) ==
  IF cs.in[s].present
  THEN [cs |-> InstanceError(DeleteInstance(cs, s), s), threw |-> TRUE]
  ELSE [cs |-> [cs EXCEPT !.in[s] = [present |-> TRUE, client |-> FALSE],
                          !.ca[c].holdsInst = TRUE],
        threw |-> FALSE]

\* VenomBotAdapter.createInstance after `await create(...)`
CreateInstanceDone(cs, c, s, ok) ==
  IF ok
  THEN InstanceConnected(IF cs.ca[c].holdsInst THEN [cs EXCEPT !.in[s].client = TRUE] ELSE cs, s)
  ELSE InstanceError(IF cs.in[s].present THEN DeleteInstance(cs, s) ELSE cs, s)

\* VenomBotAdapter.closeInstance up to `await instance.client.close()`
CloseInstanceStart(cs, s) ==
  IF ~cs.in[s].present THEN [cs |-> cs, awaiting |-> FALSE]
  ELSE IF cs.in[s].client THEN [cs |-> cs, awaiting |-> TRUE]
  ELSE [cs |-> DeleteInstance(cs, s), awaiting |-> FALSE]

\* a faulty closeInstance without the inner try/catch
CloseInstanceRethrows(closeOk) == ~closeOk
\* does closeInstance throw when client.close() has rejected: the inner
\* try/catch logs the error
CloseInstanceThrows(closeOk) == FALSE

\* VenomBotAdapter.closeInstance after `await instance.client.close()`
CloseInstanceDone(cs, s, closeOk) ==
  IF CloseInstanceThrows(closeOk) THEN cs ELSE DeleteInstance(cs, s)

\* a faulty limit test that is off by one
SessionLimitReachedStrict(cn) == Cardinality({x \in Sessions : cn[x].present}) > MaxSessions
\* _checkSessionLimit
SessionLimitReached(cn) == Cardinality({x \in Sessions : cn[x].present}) >= MaxSessions

\* a faulty attempts test that is off by one
AttemptsExhaustedStrict(n) == n > ReconnectAttempts
\* the test of reconnectSession on the attempts made so far
AttemptsExhausted(n) == n >= ReconnectAttempts

\* MessageListener.startListening
StartListening(cs, s) ==
  IF s \notin cs.al /\ cs.cn[s].present THEN [cs EXCEPT !.al = @ \cup {s}] ELSE cs

\* the facade's createSession after connectionManager.createSession returned
FacadeCreated(cs, c) ==
  IF cs.ca[c].facade /\ cs.ca[c].auto THEN StartListening(cs, cs.ca[c].sessionId) ELSE cs

\* a faulty catch that leaves the placeholder in the map
CmCreateFailedKeeps(cs, c, s) == Finish(cs, c, "connection", FALSE)
\* ConnectionManager.createSession: the catch of the adapter's error
CmCreateFailed(cs, c, s) == Finish(DeleteConnection(cs, s), c, "connection", FALSE)

\* ConnectionManager.createSession up to `await this.adapter.createInstance`
CmCreateStart(cs, c, s) ==
  IF SessionLimitReached(cs.cn) THEN Finish(cs, c, "capacity", FALSE)
  ELSE IF cs.cn[s].present THEN Finish(cs, c, "duplicate", FALSE)
  ELSE LET cs1 == [cs EXCEPT !.cn[s] = [present |-> TRUE, status |-> "creating",
                                        reconnectAttempts |-> 0, lastActivity |-> now],
                             !.ci = @ \ {s},
                             !.ca[c].holdsConn = TRUE,
                             !.ca[c].pc = "venomCreate"]
           r == CreateInstanceStart(cs1, c, s)
       IN IF r.threw THEN CmCreateFailed(r.cs, c, s)
          ELSE r.cs

\* ConnectionManager.closeSession after closeInstance returned
CmClosed(cs, s) ==
  SessionClosed([DeleteConnection(cs, s) EXCEPT !.ci = @ \cup {s}], s)

\* the facade's closeSession after connectionManager.closeSession returned:
\* sessionStore.updateSession up to `await _saveSessionMetadata`
FacadeClosed(cs, c, closeFailed) ==
  LET s == cs.ca[c].sessionId
  IN IF ~cs.ca[c].facade THEN Finish(cs, c, "true", closeFailed)
     ELSE IF cs.sc[s] = "absent" THEN Finish(cs, c, "store", closeFailed)
     ELSE [cs EXCEPT !.sc[s] = "closed", !.ca[c].pc = "storeSave"]

\* ConnectionManager.closeSession up to `await this.adapter.closeInstance`
CmCloseStart(cs, c, s) ==
  IF ~cs.cn[s].present
  THEN IF cs.ca[c].facade THEN FacadeClosed(cs, c, FALSE) ELSE Finish(cs, c, "false", FALSE)
  ELSE LET r == CloseInstanceStart(SetStatus(cs, s, "closing"), s)
       IN IF r.awaiting THEN [r.cs EXCEPT !.ca[c].pc = "clientClose"]
          ELSE FacadeClosed(CmClosed(r.cs, s), c, FALSE)

\* ConnectionManager.reconnectSession up to its first await
CmReconnectStart(cs, c, s) ==
  IF ~cs.cn[s].present THEN Finish(cs, c, "notfound", FALSE)
  ELSE IF AttemptsExhausted(cs.cn[s].reconnectAttempts)
  THEN Finish(SetStatus(cs, s, "error"), c, "exhausted", FALSE)
  ELSE LET cs1 == [cs EXCEPT !.cn[s].reconnectAttempts = @ + 1,
                             !.cn[s].status = "reconnecting",
                             !.ca[c].holdsConn = TRUE]
           r == CloseInstanceStart(cs1, s)
       IN [r.cs EXCEPT !.ca[c].pc = IF r.awaiting THEN "clientClose" ELSE "backoff"]

NewCall(op, s, facade, auto) ==
  [op |-> op, sessionId |-> s, pc |-> "start", facade |-> facade, holdsConn |-> FALSE,
   holdsInst |-> FALSE, repeated |-> s \in closedIds, auto |-> auto,
   interrupted |-> FALSE]

connFrame == <<now, qrCache, qrPending, qrIssued, qrResult, msgs, rateLimiters, processingStatus, loops,
               immCalls, immStats, tries, failedEvents, ahead, sendResult, pauseCalled,
               listenerVars>>

\* ConnectionManager.createSession, and WhatsAppService.createSession up to
\* the first await of sessionStore.createSession
CreateSession(s, facade, auto) ==
  /\ HasFreeCall
  /\ facade \/ ~auto
  /\ LET c == FreeCall
         cs == [CurConn EXCEPT !.ca[c] = NewCall("create", s, facade, auto)]
     IN CommitConn(IF ~facade THEN CmCreateStart(cs, c, s)
                   ELSE IF cs.sc[s] # "absent" THEN Finish(cs, c, "exists", FALSE)
                   ELSE [cs EXCEPT !.ca[c].pc = "storeMkdir"])
  /\ UNCHANGED <<connFrame, messageQueues, gone>>

\* sessionStore.createSession after `await _ensureSessionDirectory`
StoreMkdirDone(c, ok) ==
  /\ calls[c].pc = "storeMkdir"
  /\ CommitConn(IF ok THEN [CurConn EXCEPT !.sc[calls[c].sessionId] = "created",
                                           !.ca[c].pc = "storeSave"]
                ELSE Finish(CurConn, c, "storeerror", FALSE))
  /\ UNCHANGED <<connFrame, messageQueues, gone>>

\* after `await _saveSessionMetadata`: the facade's createSession goes on
\* with connectionManager.createSession, its closeSession returns
StoreSaveDone(c, ok) ==
  /\ calls[c].pc = "storeSave"
  /\ CommitConn(IF ~ok THEN Finish(CurConn, c, "storeerror", FALSE)
                ELSE IF calls[c].op = "create" THEN CmCreateStart(CurConn, c, calls[c].sessionId)
                ELSE Finish(CurConn, c, "true", FALSE))
  /\ UNCHANGED <<connFrame, messageQueues, gone>>

\* `await create(venomOptions)` settles: the rest of createInstance and of
\* createSession or reconnectSession
VenomCreateDone(c, ok) ==
  /\ calls[c].pc = "venomCreate"
  /\ LET s == calls[c].sessionId
         cs == CreateInstanceDone(CurConn, c, s, ok)
     IN CommitConn(
          IF calls[c].op = "create"
          THEN IF ok THEN Finish(FacadeCreated(SetHeldStatus(cs, c, "connected"), c), c,
                                 "connected", FALSE)
               ELSE CmCreateFailed(cs, c, s)
          ELSE IF ok THEN Finish(SetHeldStatus(cs, c, "connected"), c, "true", FALSE)
               ELSE Finish(SetStatus(cs, s, "error"), c, "error", FALSE))
  /\ UNCHANGED <<connFrame, messageQueues, gone>>

\* ConnectionManager.closeSession, and WhatsAppService.closeSession with its
\* stopListening, clearQueue and clearQRCode
CloseSession(s, facade) ==
  /\ HasFreeCall
  /\ LET c == FreeCall
         cs0 == [CurConn EXCEPT !.ca = [d \in CallIds |->
                   IF d = c THEN NewCall("close", s, facade, FALSE)
                   ELSE IF calls[d].op = "reconnect" /\ calls[d].sessionId = s
                           /\ calls[d].pc = "backoff"
                        THEN [calls[d] EXCEPT !.interrupted = TRUE]
                        ELSE calls[d]]]
         cs == IF facade THEN [cs0 EXCEPT !.al = @ \ {s}] ELSE cs0
     IN CommitConn(CmCloseStart(cs, c, s))
  /\ messageQueues' = IF facade THEN [messageQueues EXCEPT ![s] = <<>>] ELSE messageQueues
  /\ gone' = [i \in MsgIds |->
        IF facade /\ i \in Range(messageQueues[s]) THEN "cleared" ELSE gone[i]]
  /\ qrCache' = IF facade THEN [qrCache EXCEPT ![s] = NoQr] ELSE qrCache
  /\ UNCHANGED <<now, qrPending, qrIssued, qrResult, msgs, rateLimiters, processingStatus,
                 loops, immCalls, immStats, tries, failedEvents, ahead, sendResult,
                 pauseCalled, listenerVars>>

\* `await instance.client.close()` settles: the rest of closeInstance and of
\* closeSession, or reconnectSession up to its backoff wait
ClientCloseDone(c, closeOk) ==
  /\ calls[c].pc = "clientClose"
  /\ LET s == calls[c].sessionId
         cs == CloseInstanceDone(CurConn, s, closeOk)
     IN CommitConn(
          IF calls[c].op = "reconnect" THEN [cs EXCEPT !.ca[c].pc = "backoff"]
          ELSE IF CloseInstanceThrows(closeOk)
          THEN Finish(SetStatus(cs, s, "error"), c, "throw", ~closeOk)
          ELSE FacadeClosed(CmClosed(cs, s), c, ~closeOk))
  /\ UNCHANGED <<connFrame, messageQueues, gone>>

ReconnectSession(s) ==
  /\ HasFreeCall
  /\ LET c == FreeCall
         cs == [CurConn EXCEPT !.ca[c] = NewCall("reconnect", s, FALSE, FALSE)]
     IN CommitConn(CmReconnectStart(cs, c, s))
  /\ UNCHANGED <<connFrame, messageQueues, gone>>

\* the backoff wait of reconnectSession is over: createInstance up to its await
BackoffDone(c) ==
  /\ calls[c].pc = "backoff"
  /\ LET s == calls[c].sessionId
         r == CreateInstanceStart(CurConn, c, s)
     IN CommitConn(IF r.threw THEN Finish(SetStatus(r.cs, s, "error"), c, "error", FALSE)
                   ELSE [r.cs EXCEPT !.ca[c].pc = "venomCreate"])
  /\ UNCHANGED <<connFrame, messageQueues, gone>>

\* the first free slot for a call in a threaded state
FreeCallIn(ca) ==
  CHOOSE c \in CallIds : ca[c].op = "none" /\ \A d \in CallIds : ca[d].op = "none" => c <= d

\* this.closeSession(sessionId) of the sweep, up to its first await
SweepClose(cs, s) ==
  LET c == FreeCallIn(cs.ca)
      cs0 == [cs EXCEPT !.ca = [d \in CallIds |->
                IF d = c THEN NewCall("close", s, FALSE, FALSE)
                ELSE IF cs.ca[d].op = "reconnect" /\ cs.ca[d].sessionId = s
                        /\ cs.ca[d].pc = "backoff"
                     THEN [cs.ca[d] EXCEPT !.interrupted = TRUE]
                     ELSE cs.ca[d]]]
  IN CmCloseStart(cs0, c, s)

RECURSIVE SweepAll(_, _)
SweepAll(cs, S) ==
  IF S = {} THEN cs
  ELSE LET s == CHOOSE x \in S : TRUE
       IN SweepAll(SweepClose(cs, s), S \ {s})

\* a faulty test of the sweep that looks at the idle time only
ShouldCleanupAnyStatus(conn, t) ==
  conn.present /\ t - conn.lastActivity > SessionTimeout
\* the test of _performCleanup on one entry of the connections map
ShouldCleanup(conn, t) ==
  conn.present /\ t - conn.lastActivity > SessionTimeout /\ conn.status = "error"

\* _performCleanup, run by the one-minute interval timer: closeSession is
\* started for every session found idle and in error
PerformCleanup ==
  LET S == {s \in Sessions : ShouldCleanup(connections[s], now)}
  IN /\ S # {}
     /\ Cardinality({c \in CallIds : calls[c].op = "none"}) >= Cardinality(S)
     /\ CommitConn(SweepAll(CurConn, S))
     /\ UNCHANGED <<connFrame, messageQueues, gone>>

(***************************************************************************)
(* QRCodeHandler: the cache of pairing codes.  An image is modelled by the  *)
(* string it encodes, an encoding by a tag around what it encodes.         *)
(***************************************************************************)
qrFrame == <<instances, calls, lastResult, closedIds, sessionsCache, activeListeners,
             senderVars, sendResult, pauseCalled, listenerVars>>

\* qrData.url || qrData.base64
QrString(p) == IF p.url # "" THEN p.url ELSE p.base64

Png(str) == <<"png", str>>
ToBase64(bytes) == <<"base64", bytes>>
FromBase64(b64) == b64[2]
\* QRCode.toDataURL
ToDataURL(str) == <<"data:image/png;base64,", ToBase64(Png(str))>>

\* _generateQRImages
GenerateQRImages(str) ==
  LET dataURL == ToDataURL(str)
      base64Data == dataURL[2]
  IN [dataURL |-> dataURL, base64 |-> base64Data, buffer |-> FromBase64(base64Data)]

\* VenomBotAdapter._handleQRCode, the qrCode listeners of ConnectionManager
\* and of the facade, and processQRCode up to `await _generateQRImages`
QrEvent(s, p) ==
  /\ instances[s].present
  /\ qrIssued[s] < MaxQrEvents
  /\ qrIssued' = [qrIssued EXCEPT ![s] = @ + 1]
  /\ connections' = IF connections[s].present
                     THEN [connections EXCEPT ![s].status = "qr_ready",
                                              ![s].lastActivity = now]
                     ELSE connections
  /\ qrPending' = IF p.base64 = "" /\ p.url = "" THEN qrPending
                   ELSE qrPending \cup
                          {[sessionId |-> s, attempts |-> qrIssued[s] + 1, original |-> p]}
  /\ qrResult' = NoQrResult
  /\ UNCHANGED <<now, qrCache, qrFrame>>

\* a faulty store that always renders the base64 variant of the payload
StoreQrBase64(j, t) ==
  [present |-> TRUE, attempts |-> j.attempts, expiresAt |-> t + QrTimeout,
   original |-> j.original, images |-> GenerateQRImages(j.original.base64)]
\* the record processQRCode writes to the cache
StoreQr(j, t) ==
  [present |-> TRUE, attempts |-> j.attempts, expiresAt |-> t + QrTimeout,
   original |-> j.original, images |-> GenerateQRImages(QrString(j.original))]

\* `await _generateQRImages` settles: the rest of processQRCode
QrRendered(j, ok) ==
  /\ j \in qrPending
  /\ qrPending' = qrPending \ {j}
  /\ qrCache' = IF ok THEN [qrCache EXCEPT ![j.sessionId] = StoreQr(j, now)] ELSE qrCache
  /\ qrResult' = NoQrResult
  /\ UNCHANGED <<now, connections, qrIssued, qrFrame>>

\* new Date() > qrData.expiresAt
QrExpired(rec, t) == t > rec.expiresAt

\* format.toLowerCase()
ToLowerCase(f) == IF f = "dataURL" THEN "dataurl" ELSE f

\* the switch of getQRCode; the default branch throws and the catch block
\* turns the error into null
QrView(rec, s, f) ==
  LET Ret(name, data) == [res |-> "data", sessionId |-> s, format |-> name,
                          attempts |-> rec.attempts, data |-> data]
      lf == ToLowerCase(f)
  IN CASE lf \in {"dataurl", "data-url"} -> Ret("dataURL", rec.images.dataURL)
       [] lf = "buffer" -> Ret("buffer", rec.images.buffer)
       [] lf = "base64" -> Ret("base64", rec.images.base64)
       [] lf = "ascii" -> Ret("ascii", rec.original.ascii)
       [] lf = "original" -> Ret("original", rec.original)
       [] lf = "all" -> Ret("all", [images |-> rec.images, original |-> rec.original])
       [] OTHER -> [NoQrResult EXCEPT !.res = "null", !.sessionId = s, !.format = f]

\* QRCodeHandler.getQRCode
GetQRCode(s, f) ==
  LET rec == qrCache[s]
      null == [NoQrResult EXCEPT !.res = "null", !.sessionId = s, !.format = f]
  IN /\ qrCache' = IF rec.present /\ QrExpired(rec, now)
                    THEN [qrCache EXCEPT ![s] = NoQr] ELSE qrCache
     /\ qrResult' = IF ~rec.present \/ QrExpired(rec, now) THEN null ELSE QrView(rec, s, f)
     /\ UNCHANGED <<now, connections, qrPending, qrIssued, qrFrame>>

\* QRCodeHandler.clearQRCode
ClearQRCode(s) ==
  /\ qrCache[s].present
  /\ qrCache' = [qrCache EXCEPT ![s] = NoQr]
  /\ qrResult' = NoQrResult
  /\ UNCHANGED <<now, connections, qrPending, qrIssued, qrFrame>>

\* QRCodeHandler.cleanupExpiredQRs, run by the cleanup interval timer
CleanupExpiredQRs ==
  /\ \E s \in Sessions : qrCache[s].present /\ QrExpired(qrCache[s], now)
  /\ qrCache' = [s \in Sessions |->
        IF qrCache[s].present /\ QrExpired(qrCache[s], now) THEN NoQr ELSE qrCache[s]]
  /\ qrResult' = NoQrResult
  /\ UNCHANGED <<now, connections, qrPending, qrIssued, qrFrame>>

(***************************************************************************)
(* MessageListener: the filter of inbound messages.                        *)
(***************************************************************************)
MaxInbound == 2
HandlerIds == 1..MaxInbound
Switch == {"true", "false"}
Envs == [IGNORE_BROADCAST : Switch, IGNORE_GROUPS : Switch, IGNORE_STATUS : Switch,
         IGNORE_NON_TEXT : Switch, BOT_RESPONDER_ACTIVO : {"false"}]
DefaultEnv == [IGNORE_BROADCAST |-> "false", IGNORE_GROUPS |-> "false",
               IGNORE_STATUS |-> "false", IGNORE_NON_TEXT |-> "false",
               BOT_RESPONDER_ACTIVO |-> "false"]
ResponderEnv == [DefaultEnv EXCEPT !.BOT_RESPONDER_ACTIVO = "true"]
ChatIds == {"status@broadcast", "5491100000000@c.us"}
InboundMessages == [broadcast : BOOLEAN, isGroupMsg : BOOLEAN, chatId : ChatIds,
                    type : {"chat", "image"}]
ResponseDelay == 1
UserCacheExpiry == 1
MaxCacheSize == 1
\* the senders of inbound messages: the same subscriber written without and
\* with the country code, digit by digit
Froms == {[user |-> <<1, 1, 2, 2, 3, 3, 4, 4, 5, 5>>, server |-> "c.us"],
          [user |-> <<5, 4, 1, 1, 2, 2, 3, 3, 4, 4, 5, 5>>, server |-> "c.us"]}
Phones == {<<5, 4, 1, 1, 2, 2, 3, 3, 4, 4, 5, 5>>}
TextMessage == [broadcast |-> FALSE, isGroupMsg |-> FALSE,
                chatId |-> "5491100000000@c.us", type |-> "chat"]

NoVerdict == [present |-> FALSE, processed |-> FALSE, message |-> TextMessage]
NoHandler == [pc |-> "none", sessionId |-> "none", phoneNumber |-> <<>>,
              found |-> FALSE, wakeAt |-> 0]

\* the filter switches the constructor reads from the environment
ListenerConfig(e) ==
  [ignoreBroadcast |-> e.IGNORE_BROADCAST = "true",
   ignoreGroups |-> e.IGNORE_GROUPS = "true",
   ignoreStatus |-> e.IGNORE_STATUS = "true",
   aiEnabled |-> e.BOT_RESPONDER_ACTIVO = "true"]

\* the listener after its constructor has run in environment e
ListenerConstructed(e) ==
  /\ env = e
  /\ config = ListenerConfig(e)
  /\ verdict = NoVerdict
  /\ handlers = [h \in HandlerIds |-> NoHandler]
  /\ usersCache = <<>>
  /\ userRows = {}
  /\ userInserts = [p \in Phones |-> 0]
  /\ arrived = 0

\* message.chatId.includes('status@broadcast')
IsStatusChat(chatId) == chatId = "status@broadcast"

\* _shouldProcessMessage
ShouldProcessMessage(cfg, m) ==
  IF cfg.ignoreBroadcast /\ m.broadcast THEN FALSE
  ELSE IF cfg.ignoreGroups /\ m.isGroupMsg THEN FALSE
  ELSE IF cfg.ignoreStatus /\ IsStatusChat(m.chatId) THEN FALSE
  ELSE IF m.type # "chat" THEN FALSE
  ELSE TRUE

\* a call of _shouldProcessMessage
ShouldProcess(m) ==
  /\ verdict' = [present |-> TRUE, processed |-> ShouldProcessMessage(config, m),
                  message |-> m]
  /\ UNCHANGED <<now, connections, instances, calls, lastResult, closedIds, sessionsCache,
                 activeListeners, qrCache, qrPending, qrIssued, qrResult, senderVars,
                 sendResult, pauseCalled, env, config, handlers, usersCache, userRows,
                 userInserts, arrived>>

(***************************************************************************)
(* MessageListener: the handling of one inbound message, from the adapter's *)
(* event to the auto-response, one action per await.                        *)
(***************************************************************************)
listenFrame == <<now, instances, calls, lastResult, closedIds, sessionsCache,
                 activeListeners, qrCache, qrPending, qrIssued, qrResult, senderVars,
                 sendResult, pauseCalled, env, config, verdict>>

\* _extractPhoneNumber
ExtractPhoneNumber(from) ==
  LET cleaned == from.user
  IN IF Len(cleaned) = 10 /\ ~(cleaned[1] = 5 /\ cleaned[2] = 4)
     THEN <<5, 4>> \o cleaned
     ELSE cleaned

\* the cache entry of a key that is still fresh
CacheHit(cache, key, t) ==
  \E i \in 1..Len(cache) : cache[i].key = key /\ t - cache[i].cachedAt < UserCacheExpiry

\* _cacheUser: Map.set keeps the place of a key that is already there
CacheUser(cache, key, t) ==
  LET c1 == IF Len(cache) >= MaxCacheSize THEN Tail(cache) ELSE cache
      e == [key |-> key, cachedAt |-> t]
  IN IF \E i \in 1..Len(c1) : c1[i].key = key
     THEN [i \in 1..Len(c1) |-> IF c1[i].key = key THEN e ELSE c1[i]]
     ELSE Append(c1, e)

HasFreeHandler == \E h \in HandlerIds : handlers[h].pc = "none"
FreeHandler ==
  CHOOSE h \in HandlerIds :
    handlers[h].pc = "none" /\ \A k \in HandlerIds : handlers[k].pc = "none" => h <= k

\* _processMessage once the user is known: the auto-response up to the
\* await of _getConversationHistory
AfterUser(hd) ==
  IF config.aiEnabled THEN [hd EXCEPT !.pc = "history"] ELSE NoHandler

\* the adapter delivers an inbound message: ConnectionManager re-emits it,
\* _handleIncomingMessage runs up to the await of _saveMessageToDB
MessageReceived(s, from, m) ==
  /\ arrived < MaxInbound
  /\ HasFreeHandler
  /\ instances[s].present /\ instances[s].client
  /\ arrived' = arrived + 1
  /\ connections' = IF connections[s].present
                     THEN [connections EXCEPT ![s].lastActivity = now]
                     ELSE connections
  /\ handlers' = IF s \in activeListeners /\ ShouldProcessMessage(config, m)
                  THEN [handlers EXCEPT ![FreeHandler] =
                          [NoHandler EXCEPT !.pc = "saveMessage", !.sessionId = s,
                                            !.phoneNumber = ExtractPhoneNumber(from)]]
                  ELSE handlers
  /\ UNCHANGED <<listenFrame, usersCache, userRows, userInserts>>

\* the INSERT into ll_mensajes settles; _getOrCreateUser up to the await of
\* its SELECT
SaveMessageDone(h, ok) ==
  /\ handlers[h].pc = "saveMessage"
  /\ handlers' = [handlers EXCEPT ![h] =
        IF ~ok THEN NoHandler
        ELSE IF CacheHit(usersCache, handlers[h].phoneNumber, now) THEN AfterUser(@)
        ELSE [@ EXCEPT !.pc = "selectUser", !.found = handlers[h].phoneNumber \in userRows]]
  /\ UNCHANGED <<listenFrame, connections, usersCache, userRows, userInserts, arrived>>

\* the SELECT settles with the rows the store held at some moment between
\* the query and its answer; the INSERT or the UPDATE is issued
SelectDone(h, rows) ==
  /\ handlers[h].pc = "selectUser"
  /\ rows \in {handlers[h].found, handlers[h].phoneNumber \in userRows}
  /\ handlers' = [handlers EXCEPT ![h].pc = IF rows THEN "updateUser" ELSE "insertUser"]
  /\ userInserts' = IF rows THEN userInserts
                     ELSE [userInserts EXCEPT ![handlers[h].phoneNumber] = @ + 1]
  /\ UNCHANGED <<listenFrame, connections, usersCache, userRows, arrived>>

\* the INSERT or the UPDATE of the user settles; the user is cached
UserWriteDone(h, ok) ==
  /\ handlers[h].pc \in {"insertUser", "updateUser"}
  /\ userRows' = IF ok /\ handlers[h].pc = "insertUser"
                  THEN userRows \cup {handlers[h].phoneNumber} ELSE userRows
  /\ usersCache' = IF ok THEN CacheUser(usersCache, handlers[h].phoneNumber, now)
                    ELSE usersCache
  /\ handlers' = [handlers EXCEPT ![h] = IF ok THEN AfterUser(@) ELSE NoHandler]
  /\ UNCHANGED <<listenFrame, connections, userInserts, arrived>>

\* the history query settles; _generateSimpleResponse answers or not; the
\* response delay starts
HistoryDone(h, reply) ==
  /\ handlers[h].pc = "history"
  /\ handlers' = [handlers EXCEPT ![h] =
        IF reply THEN [@ EXCEPT !.pc = "responseDelay", !.wakeAt = now + ResponseDelay]
        ELSE NoHandler]
  /\ UNCHANGED <<listenFrame, connections, usersCache, userRows, userInserts, arrived>>

\* the response delay is over: connectionManager.sendMessage up to the
\* await of the adapter
ResponseDelayDone(h) ==
  /\ handlers[h].pc = "responseDelay"
  /\ now >= handlers[h].wakeAt
  /\ LET s == handlers[h].sessionId
     IN /\ handlers' = [handlers EXCEPT ![h] =
              IF CanSend(s) THEN [@ EXCEPT !.pc = "respond"] ELSE NoHandler]
        /\ connections' = IF CanSend(s)
                           THEN [connections EXCEPT ![s].lastActivity = now]
                           ELSE connections
  /\ UNCHANGED <<listenFrame, usersCache, userRows, userInserts, arrived>>

\* the adapter has sent the response or has thrown
RespondDone(h, ok) ==
  /\ handlers[h].pc = "respond"
  /\ handlers' = [handlers EXCEPT ![h] = IF ok THEN [@ EXCEPT !.pc = "saveReply"]
                                           ELSE NoHandler]
  /\ UNCHANGED <<listenFrame, connections, usersCache, userRows, userInserts, arrived>>

\* the INSERT of the response into ll_ia_conversaciones settles
SaveReplyDone(h) ==
  /\ handlers[h].pc = "saveReply"
  /\ handlers' = [handlers EXCEPT ![h] = NoHandler]
  /\ UNCHANGED <<listenFrame, connections, usersCache, userRows, userInserts, arrived>>

\* MessageListener.startListening
StartListeningCall(s) ==
  /\ CommitConn(StartListening(CurConn, s))
  /\ UNCHANGED <<connFrame, messageQueues, gone>>

\* MessageListener.stopListening
StopListening(s) ==
  /\ s \in activeListeners
  /\ CommitConn(SessionClosed(CurConn, s))
  /\ UNCHANGED <<connFrame, messageQueues, gone>>

(***************************************************************************)
(* Specifications                                                          *)
(***************************************************************************)
\* the modules of the service as their constructors leave them, no session
\* exists
ServiceInit ==
  /\ now = 0
  /\ connections = [s \in Sessions |-> NoConnection]
  /\ instances = [s \in Sessions |-> NoInstance]
  /\ calls = [c \in CallIds |-> NoCall]
  /\ lastResult = NoResult
  /\ closedIds = {}
  /\ sessionsCache = [s \in Sessions |-> "absent"]
  /\ activeListeners = {}
  /\ qrCache = [s \in Sessions |-> NoQr]
  /\ qrPending = {}
  /\ qrIssued = [s \in Sessions |-> 0]
  /\ qrResult = NoQrResult
  /\ messageQueues = [s \in Sessions |-> <<>>]
  /\ msgs = [i \in MsgIds |-> NoMsg]
  /\ rateLimiters = [s \in Sessions |-> NoLimiter]
  /\ processingStatus = [s \in Sessions |-> NoStatus]
  /\ loops = [s \in Sessions |-> [l \in LoopIds |-> NoLoop]]
  /\ immCalls = [s \in Sessions |-> [b \in BOOLEAN |-> 0]]
  /\ immStats = [s \in Sessions |-> NoStats]
  /\ tries = [i \in MsgIds |-> 0]
  /\ failedEvents = [i \in MsgIds |-> 0]
  /\ ahead = [i \in MsgIds |-> {}]
  /\ gone = [i \in MsgIds |-> "no"]
  /\ sendResult = NoSend
  /\ pauseCalled = [s \in Sessions |-> FALSE]

\* the service is initialized and started with no filter variable set in
\* the environment
Init == ServiceInit /\ ListenerConstructed(DefaultEnv)

\* the life cycle of sessions at the ConnectionManager
ConnNext ==
  \/ \E s \in Sessions : CreateSession(s, FALSE, FALSE)
  \/ \E c \in CallIds, ok \in BOOLEAN : VenomCreateDone(c, ok)
  \/ \E s \in Sessions : CloseSession(s, FALSE)
  \/ \E c \in CallIds, ok \in BOOLEAN : ClientCloseDone(c, ok)
  \/ \E s \in Sessions : ReconnectSession(s)
  \/ \E c \in CallIds : BackoffDone(c)

ConnSpec == Init /\ [][ConnNext]_vars

\* the life cycle of sessions through the WhatsAppService facade
FacadeNext ==
  \/ \E s \in Sessions, a \in BOOLEAN : CreateSession(s, TRUE, a)
  \/ \E c \in CallIds, ok \in BOOLEAN : StoreMkdirDone(c, ok)
  \/ \E c \in CallIds, ok \in BOOLEAN : StoreSaveDone(c, ok)
  \/ \E c \in CallIds, ok \in BOOLEAN : VenomCreateDone(c, ok)
  \/ \E s \in Sessions : CloseSession(s, TRUE)
  \/ \E c \in CallIds, ok \in BOOLEAN : ClientCloseDone(c, ok)

FacadeSpec == Init /\ [][FacadeNext]_vars

\* the state after createSession("s1") through the facade has connected
ConnectedInit ==
  /\ now = 0
  /\ connections = [s \in Sessions |-> IF s \in SenderSessions
                      THEN [present |-> TRUE, status |-> "connected", reconnectAttempts |-> 0,
                            lastActivity |-> 0]
                      ELSE NoConnection]
  /\ instances = [s \in Sessions |-> IF s \in SenderSessions
                      THEN [present |-> TRUE, client |-> TRUE] ELSE NoInstance]
  /\ calls = [c \in CallIds |-> NoCall]
  /\ lastResult = [NoResult EXCEPT !.op = "create", !.sessionId = "s1", !.facade = TRUE,
                                   !.res = "connected"]
  /\ closedIds = {}
  /\ sessionsCache = [s \in Sessions |-> IF s \in SenderSessions THEN "created" ELSE "absent"]
  /\ activeListeners = {}
  /\ qrCache = [s \in Sessions |-> NoQr]
  /\ qrPending = {}
  /\ qrIssued = [s \in Sessions |-> 0]
  /\ qrResult = NoQrResult
  /\ messageQueues = [s \in Sessions |-> <<>>]
  /\ msgs = [i \in MsgIds |-> NoMsg]
  /\ rateLimiters = [s \in Sessions |-> NoLimiter]
  /\ processingStatus = [s \in Sessions |-> NoStatus]
  /\ loops = [s \in Sessions |-> [l \in LoopIds |-> NoLoop]]
  /\ immCalls = [s \in Sessions |-> [b \in BOOLEAN |-> 0]]
  /\ immStats = [s \in Sessions |-> NoStats]
  /\ tries = [i \in MsgIds |-> 0]
  /\ failedEvents = [i \in MsgIds |-> 0]
  /\ ahead = [i \in MsgIds |-> {}]
  /\ gone = [i \in MsgIds |-> "no"]
  /\ sendResult = NoSend
  /\ pauseCalled = [s \in Sessions |-> FALSE]

SenderInit == ConnectedInit /\ ListenerConstructed(DefaultEnv)

\* the outbound queue and its drain loop
Next ==
  \/ Tick
  \/ \E s \in SenderSessions, p \in Priorities, k \in RetryChoices, b \in SkipChoices :
        RoomFor(MaxMsgs) /\ SendMessage(s, p, k, b)
  \/ \E s \in SenderSessions, l \in LoopIds : SendSucceeds(s, l)
  \/ \E s \in SenderSessions, l \in LoopIds : SendFails(s, l)
  \/ \E s \in SenderSessions, l \in LoopIds : SendTimesOut(s, l)
  \/ \E s \in SenderSessions, l \in LoopIds : TimerFires(s, l)
  \/ \E s \in SenderSessions :
        processingStatus[s].exists /\ ~processingStatus[s].paused /\ PauseSession(s)
  \/ \E s \in SenderSessions :
        processingStatus[s].exists /\ processingStatus[s].paused /\ ResumeSession(s)
  \/ \E s \in SenderSessions, f \in {"all", "failed", "pending"} : ClearQueue(s, f)
  \/ CleanupExpiredMessages

Spec == SenderInit /\ [][Next]_vars

\* the drain loop with pauseSession and resumeSession called at any time
PauseNext ==
  \/ Tick
  \/ \E s \in SenderSessions, p \in Priorities, k \in RetryChoices, b \in SkipChoices :
        RoomFor(MaxMsgs) /\ SendMessage(s, p, k, b)
  \/ \E s \in SenderSessions, l \in LoopIds : SendSucceeds(s, l)
  \/ \E s \in SenderSessions, l \in LoopIds : SendFails(s, l)
  \/ \E s \in SenderSessions, l \in LoopIds : TimerFires(s, l)
  \/ \E s \in SenderSessions : PauseSession(s)
  \/ \E s \in SenderSessions : ResumeSession(s)

PauseSpec == SenderInit /\ [][PauseNext]_vars

\* enqueues that succeed and enqueues that fail, with the drain loop
EnqNext ==
  \/ Tick
  \/ \E s \in SenderSessions, p \in Priorities, b \in SkipChoices :
        SendMessage(s, p, MaxRetries, b)
  \/ \E s \in Sessions, to \in Recipients, len \in BodyLengths, p \in Priorities :
        SendMessageFails(s, to, len, p)
  \/ \E s \in SenderSessions, l \in LoopIds : SendSucceeds(s, l)
  \/ \E s \in SenderSessions, l \in LoopIds : TimerFires(s, l)

EnqSpec == SenderInit /\ [][EnqNext]_vars

\* the drain loop together with concurrent sendImmediateMessage calls
RateNext ==
  \/ Tick
  \/ \E s \in SenderSessions, p \in Priorities, k \in RetryChoices, b \in SkipChoices :
        RoomFor(MaxMsgs) /\ SendMessage(s, p, k, b)
  \/ \E s \in SenderSessions, l \in LoopIds : SendSucceeds(s, l)
  \/ \E s \in SenderSessions, l \in LoopIds : SendFails(s, l)
  \/ \E s \in SenderSessions, l \in LoopIds : TimerFires(s, l)
  \/ \E s \in SenderSessions, b \in SkipChoices : ImmediateStart(s, b)
  \/ \E s \in SenderSessions : ImmediateRejected(s)
  \/ \E s \in SenderSessions, b \in SkipChoices : ImmediateSent(s, b)
  \/ \E s \in SenderSessions, b \in SkipChoices : ImmediateFails(s, b)

RateSpec == SenderInit /\ [][RateNext]_vars

\* sendImmediateMessage calls alone, awaited or not
ImmNext ==
  \/ Tick
  \/ \E s \in SenderSessions, b \in SkipChoices : ImmediateStart(s, b)
  \/ \E s \in SenderSessions : ImmediateRejected(s)
  \/ \E s \in SenderSessions, b \in SkipChoices : ImmediateSent(s, b)
  \/ \E s \in SenderSessions, b \in SkipChoices : ImmediateFails(s, b)

ImmSpec == SenderInit /\ [][ImmNext]_vars

\* immediate sends while the session is reconnected
OfflineNext ==
  \/ Tick
  \/ \E s \in SenderSessions, b \in SkipChoices : ImmediateStart(s, b)
  \/ \E s \in SenderSessions : ImmediateRejected(s)
  \/ \E s \in Sessions, b \in SkipChoices : ImmediateNotConnected(s, b)
  \/ \E s \in SenderSessions, b \in SkipChoices : ImmediateSent(s, b)
  \/ \E s \in SenderSessions, b \in SkipChoices : ImmediateFails(s, b)
  \/ \E s \in SenderSessions : ReconnectSession(s)
  \/ \E c \in CallIds, ok \in BOOLEAN : ClientCloseDone(c, ok)
  \/ \E c \in CallIds : BackoffDone(c)
  \/ \E c \in CallIds, ok \in BOOLEAN : VenomCreateDone(c, ok)

OfflineSpec == SenderInit /\ [][OfflineNext]_vars

\* the drain loop with messages that skip the rate limit and messages that
\* do not
DrainNext ==
  \/ Tick
  \/ \E s \in SenderSessions, p \in Priorities, k \in RetryChoices, b \in BOOLEAN :
        RoomFor(MaxMsgs) /\ SendMessage(s, p, k, b)
  \/ \E s \in SenderSessions, l \in LoopIds : SendSucceeds(s, l)
  \/ \E s \in SenderSessions, l \in LoopIds : SendFails(s, l)
  \/ \E s \in SenderSessions, l \in LoopIds : TimerFires(s, l)
  \/ \E s \in SenderSessions, f \in {"all", "failed", "pending"} : ClearQueue(s, f)
  \/ CleanupExpiredMessages

DrainSpec == SenderInit /\ [][DrainNext]_vars

\* closing a connected session, through the facade and through the
\* ConnectionManager (idle sweep, closeAllSessions), while messages are
\* enqueued and pairing codes arrive
ShutNext ==
  \/ Tick
  \/ \E s \in SenderSessions :
        RoomFor(MaxMsgs) /\ SendMessage(s, "normal", MaxRetries, TRUE)
  \/ \E s \in SenderSessions, l \in LoopIds : SendSucceeds(s, l)
  \/ \E s \in SenderSessions, l \in LoopIds : SendFails(s, l)
  \/ \E s \in SenderSessions, l \in LoopIds : TimerFires(s, l)
  \/ \E s \in SenderSessions, p \in {q \in Payloads : q.url # ""} : QrEvent(s, p)
  \/ \E j \in qrPending : QrRendered(j, TRUE)
  \/ \E s \in SenderSessions, f \in BOOLEAN : CloseSession(s, f)
  \/ \E c \in CallIds, ok \in BOOLEAN : ClientCloseDone(c, ok)
  \/ \E c \in CallIds, ok \in BOOLEAN : StoreSaveDone(c, ok)

ShutSpec == SenderInit /\ [][ShutNext]_vars

\* a session created and reconnected through the ConnectionManager by a
\* client that issues one call at a time, with time passing and the idle
\* sweep; timers fire and the promises of the transport settle
SweepNext ==
  \/ Tick
  \/ \E s \in SenderSessions :
        (\A c \in CallIds : calls[c].op # "create") /\ CreateSession(s, FALSE, FALSE)
  \/ \E c \in CallIds, ok \in BOOLEAN : VenomCreateDone(c, ok)
  \/ \E s \in SenderSessions :
        (\A c \in CallIds : calls[c].op # "reconnect") /\ ReconnectSession(s)
  \/ \E c \in CallIds : BackoffDone(c)
  \/ \E c \in CallIds, ok \in BOOLEAN : ClientCloseDone(c, ok)
  \/ PerformCleanup

SweepSpec ==
  /\ Init
  /\ [][SweepNext]_vars
  /\ WF_vars(PerformCleanup)
  /\ WF_vars(\E c \in CallIds, ok \in BOOLEAN : ClientCloseDone(c, ok))
  /\ WF_vars(\E c \in CallIds, ok \in BOOLEAN : VenomCreateDone(c, ok))
  /\ WF_vars(\E c \in CallIds : BackoffDone(c))

\* two sessions of the sender side by side, in a deployment whose session
\* limit admits both: the state after both have connected
IsoInit ==
  /\ now = 0
  /\ connections = [s \in Sessions |->
        [present |-> TRUE, status |-> "connected", reconnectAttempts |-> 0,
         lastActivity |-> 0]]
  /\ instances = [s \in Sessions |-> [present |-> TRUE, client |-> TRUE]]
  /\ calls = [c \in CallIds |-> NoCall]
  /\ lastResult = [NoResult EXCEPT !.op = "create", !.sessionId = "s2", !.facade = TRUE,
                                   !.res = "connected"]
  /\ closedIds = {}
  /\ sessionsCache = [s \in Sessions |-> "created"]
  /\ activeListeners = {}
  /\ qrCache = [s \in Sessions |-> NoQr]
  /\ qrPending = {}
  /\ qrIssued = [s \in Sessions |-> 0]
  /\ qrResult = NoQrResult
  /\ messageQueues = [s \in Sessions |-> <<>>]
  /\ msgs = [i \in MsgIds |-> NoMsg]
  /\ rateLimiters = [s \in Sessions |-> NoLimiter]
  /\ processingStatus = [s \in Sessions |-> NoStatus]
  /\ loops = [s \in Sessions |-> [l \in LoopIds |-> NoLoop]]
  /\ immCalls = [s \in Sessions |-> [b \in BOOLEAN |-> 0]]
  /\ immStats = [s \in Sessions |-> NoStats]
  /\ tries = [i \in MsgIds |-> 0]
  /\ failedEvents = [i \in MsgIds |-> 0]
  /\ ahead = [i \in MsgIds |-> {}]
  /\ gone = [i \in MsgIds |-> "no"]
  /\ sendResult = NoSend
  /\ pauseCalled = [s \in Sessions |-> FALSE]
  /\ ListenerConstructed(DefaultEnv)

\* the messages accepted so far for a session
Accepted(s) == {i \in MsgIds : msgs[i].sessionId = s}

\* session s1 has failures, retries, rate-limit waits and pauses; the other
\* session sends one message
IsoNext ==
  \/ Tick
  \/ \E s \in SenderSessions :
        Cardinality(Accepted(s)) < MaxMsgs /\ SendMessage(s, "normal", MaxRetries, FALSE)
  \/ \E s \in Sessions \ SenderSessions :
        Accepted(s) = {} /\ SendMessage(s, "normal", MaxRetries, FALSE)
  \/ \E s \in Sessions, l \in LoopIds : SendSucceeds(s, l)
  \/ \E s \in SenderSessions, l \in LoopIds : SendFails(s, l)
  \/ \E s \in Sessions, l \in LoopIds : TimerFires(s, l)
  \/ \E s \in SenderSessions :
        processingStatus[s].exists /\ ~processingStatus[s].paused /\ PauseSession(s)
  \/ \E s \in SenderSessions :
        processingStatus[s].exists /\ processingStatus[s].paused /\ ResumeSession(s)

IsoSpec == IsoInit /\ [][IsoNext]_vars

\* the filter of inbound messages under every setting of its switches
FilterInit == ServiceInit /\ \E e \in Envs : ListenerConstructed(e)

FilterNext == \E m \in InboundMessages : ShouldProcess(m)

FilterSpec == FilterInit /\ [][FilterNext]_vars

\* the connected session with the auto-responder switched on: inbound
\* messages, listening started and stopped, time passing
ListenInit == ConnectedInit /\ ListenerConstructed(ResponderEnv)

ListenNext ==
  \/ Tick
  \/ \E s \in SenderSessions : StartListeningCall(s)
  \/ \E s \in SenderSessions : StopListening(s)
  \/ \E s \in SenderSessions, from \in Froms, m \in {TextMessage, [TextMessage EXCEPT !.type = "image"]} :
        MessageReceived(s, from, m)
  \/ \E h \in HandlerIds, ok \in BOOLEAN : SaveMessageDone(h, ok)
  \/ \E h \in HandlerIds, rows \in BOOLEAN : SelectDone(h, rows)
  \/ \E h \in HandlerIds, ok \in BOOLEAN : UserWriteDone(h, ok)
  \/ \E h \in HandlerIds, reply \in BOOLEAN : HistoryDone(h, reply)
  \/ \E h \in HandlerIds : ResponseDelayDone(h)
  \/ \E h \in HandlerIds, ok \in BOOLEAN : RespondDone(h, ok)
  \/ \E h \in HandlerIds : SaveReplyDone(h)

ListenSpec == ListenInit /\ [][ListenNext]_vars

\* the cache of pairing codes of the connected session
QrNext ==
  \/ Tick
  \/ \E s \in SenderSessions, p \in Payloads : QrEvent(s, p)
  \/ \E j \in qrPending, ok \in BOOLEAN : QrRendered(j, ok)
  \/ \E s \in Sessions, f \in QrFormats : GetQRCode(s, f)
  \/ \E s \in Sessions : ClearQRCode(s)
  \/ CleanupExpiredQRs

QrSpec == SenderInit /\ [][QrNext]_vars

(***************************************************************************)
(* Properties of the outbound queue                                        *)
(***************************************************************************)
InQueue(id) == \E s \in Sessions : id \in Range(messageQueues[s])

\* C1: a high-priority message h enqueued behind normal messages is handed
\* to the transport before each of them that is still queued: whenever such
\* a normal message n is handed to the transport after h was enqueued, h
\* has been handed over already, unless h left the queue by a clear, a
\* sweep or its expiry.
HighPriorityFirst ==
  [][\A h \in MsgIds, n \in MsgIds :
        (n \in ahead[h] /\ tries'[n] > tries[n] /\ gone'[h] = "no") => tries'[h] > 0]_vars

\* C2: a message with maxRetries = k is attempted at most k times, and once
\* k attempts have failed it has status failed, is out of the queue and
\* exactly one messageFailed was emitted for it (none before that).
RetriesBounded ==
  \A id \in MsgIds :
    /\ tries[id] <= msgs[id].maxRetries
    /\ failedEvents[id] <= 1
    /\ (msgs[id].status # "none" /\ msgs[id].attempts >= msgs[id].maxRetries)
         => (msgs[id].status = "failed" /\ ~InQueue(id) /\ failedEvents[id] = 1)
    /\ msgs[id].attempts < msgs[id].maxRetries => failedEvents[id] = 0

\* C3: no attempt is started for a message that has expired, whatever its
\* attempts so far, and a sweep leaves no expired message in any queue.
NoExpiredAttempt ==
  [][/\ \A id \in MsgIds : tries'[id] > tries[id] => ~(now > msgs'[id].expiresAt)
     /\ CleanupExpiredMessages =>
          \A s \in Sessions : \A i \in 1..Len(messageQueues'[s]) :
             ~(now > msgs[messageQueues'[s][i]].expiresAt)]_vars

\* C3, its case: a message that failed once, had a retry left and expired
\* during the retry wait was dropped by the drain loop without another attempt
ExpiredDropped ==
  \E id \in MsgIds :
    /\ gone[id] = "dropped"
    /\ msgs[id].attempts = 1 /\ msgs[id].maxRetries = 2 /\ tries[id] = 1
    /\ now > msgs[id].expiresAt
    /\ ~InQueue(id)

\* C4: the count of sends in the current window never exceeds the limit,
\* whatever the interleaving of the drain loop and sendImmediateMessage.
RateLimitNeverExceeded ==
  \A s \in Sessions : rateLimiters[s].count <= MaxMessagesPerMinute

\* C5: when limit + 1 sendImmediateMessage calls of one window have all
\* returned and the adapter failed none of them, exactly limit of them
\* succeeded and exactly one was rejected by the rate limit.
ImmediateWindow ==
  \A s \in SenderSessions :
    (/\ ImmInFlight(s) = 0
     /\ immStats[s].failed = 0
     /\ immStats[s].ok + immStats[s].rejected = MaxMessagesPerMinute + 1)
    => (immStats[s].ok = MaxMessagesPerMinute /\ immStats[s].rejected = 1)

Running(s) == {l \in LoopIds : loops[s][l].pc # "none"}

\* C6: a session has at most one drain loop running and at most one queued
\* send in flight, and its active flag is true exactly while a loop runs.
SingleDrainLoop ==
  \A s \in Sessions :
    /\ Cardinality(Running(s)) <= 1
    /\ Cardinality({l \in LoopIds : loops[s][l].pc = "sending"}) <= 1
    /\ processingStatus[s].active <=> Running(s) # {}

\* C6, its case: a second message was enqueued while the send of the head
\* was in flight, and no second loop started
EnqueueWhileSending ==
  \E s \in Sessions :
    /\ Len(messageQueues[s]) >= 2
    /\ \E l \in LoopIds : loops[s][l].pc = "sending"
    /\ processingStatus[s].active

(***************************************************************************)
(* Properties of the session life cycle                                    *)
(***************************************************************************)
Live == {s \in Sessions : connections[s].present}

\* C7: the reconnect counter of a session never exceeds the configured
\* maximum, and reconnectSession on a session that has reached it fails
\* with the retry-exhausted error, starts no call of the adapter and leaves
\* the session in status error.
ReconnectBounded ==
  [][/\ \A s \in Sessions : connections'[s].reconnectAttempts <= ReconnectAttempts
     /\ \A s \in Sessions :
          (/\ ReconnectSession(s)
           /\ connections[s].present
           /\ connections[s].reconnectAttempts >= ReconnectAttempts)
          => /\ lastResult'.op = "reconnect" /\ lastResult'.res = "exhausted"
             /\ instances' = instances
             /\ calls' = calls
             /\ connections' = [connections EXCEPT ![s].status = "error"]]_vars

\* C7, its case: reconnectSession was refused on a session whose counter
\* stands at the maximum
ReconnectExhausted ==
  /\ lastResult.op = "reconnect" /\ lastResult.res = "exhausted"
  /\ connections[lastResult.sessionId].present
  /\ connections[lastResult.sessionId].reconnectAttempts = ReconnectAttempts
  /\ connections[lastResult.sessionId].status = "error"

\* C8: the live-session map, sessions in status creating included, never
\* holds more than maxSessions entries, and createSession at capacity
\* fails with the limit error and adds nothing.
SessionLimitKept ==
  [][/\ Cardinality({s \in Sessions : connections'[s].present}) <= MaxSessions
     /\ \A s \in Sessions :
          (CreateSession(s, FALSE, FALSE) /\ Cardinality(Live) >= MaxSessions)
          => /\ lastResult'.op = "create" /\ lastResult'.res = "capacity"
             /\ connections' = connections
             /\ instances' = instances
             /\ calls' = calls]_vars

\* C8, its case: a createSession was refused for capacity while the
\* createSession that filled the map was still in flight
CreateAtCapacity ==
  /\ lastResult.op = "create" /\ lastResult.res = "capacity"
  /\ ~connections[lastResult.sessionId].present
  /\ Cardinality(Live) = MaxSessions
  /\ \E c \in CallIds : /\ calls[c].op = "create" /\ calls[c].pc = "venomCreate"
                        /\ connections[calls[c].sessionId].status = "creating"

\* C9: a closeSession of an id that an earlier closeSession has removed
\* returns false (not found), at the ConnectionManager and through the
\* facade.
SecondCloseNotFound ==
  (lastResult.op = "close" /\ lastResult.repeated) => lastResult.res = "false"

CloseInterruptsReconnect ==
  [][\A c \in CallIds :
        (/\ calls[c].op = "reconnect" /\ calls[c].interrupted
         /\ calls'[c].op = "none"
         /\ \A d \in CallIds : calls'[d].sessionId # calls[c].sessionId
         /\ calls[c].sessionId \in closedIds')
        => /\ ~connections'[calls[c].sessionId].present
           /\ ~instances'[calls[c].sessionId].present]_vars

\* C12: when the adapter fails during createSession, the call fails with
\* the connection error, the id is absent from the live map afterwards and
\* no other entry of the map has changed, so that the number of live
\* sessions is what it was before the call added its placeholder.
CreateFailureCleansUp ==
  [][/\ \A c \in CallIds :
          (VenomCreateDone(c, FALSE) /\ calls[c].op = "create")
          => /\ lastResult'.op = "create" /\ lastResult'.res = "connection"
             /\ ~connections'[calls[c].sessionId].present
             /\ \A x \in Sessions \ {calls[c].sessionId} : connections'[x] = connections[x]
             /\ Cardinality({x \in Sessions : connections'[x].present})
                  = Cardinality(Live \ {calls[c].sessionId})
     /\ \A s \in Sessions :
          (/\ CreateSession(s, FALSE, FALSE)
           /\ ~SessionLimitReached(connections) /\ ~connections[s].present
           /\ instances[s].present)
          => /\ lastResult'.op = "create" /\ lastResult'.res = "connection"
             /\ connections' = connections]_vars

\* C12, its case: a createSession has failed on the adapter's error
CreateFailed ==
  /\ lastResult.op = "create" /\ lastResult.res = "connection"
  /\ ~connections[lastResult.sessionId].present
  /\ ~instances[lastResult.sessionId].present
  /\ Live = {}

\* C13: createSession for an id that is in the live map, in any status and
\* at any session count, fails with the duplicate-session error, starts no
\* call of the adapter and leaves the map unchanged.
DuplicateRefused ==
  [][\A s \in Sessions :
        (CreateSession(s, FALSE, FALSE) /\ connections[s].present)
        => /\ lastResult'.op = "create" /\ lastResult'.res = "duplicate"
           /\ connections' = connections
           /\ instances' = instances
           /\ calls' = calls]_vars

StatusOf(cn, s) == IF cn[s].present THEN cn[s].status ELSE "removed"

StatusEdges ==
  {<<"removed", "creating">>,
   <<"creating", "connected">>, <<"creating", "error">>,
   <<"connected", "qr_ready">>, <<"connected", "reconnecting">>,
   <<"connected", "error">>, <<"connected", "closing">>,
   <<"reconnecting", "connected">>, <<"reconnecting", "error">>,
   <<"closing", "removed">>}

\* C14: the status of a session changes only along the edges of the state
\* machine (StatusEdges; the creation of the placeholder is the entry).
LegalTransitions ==
  [][\A s \in Sessions :
        \/ StatusOf(connections', s) = StatusOf(connections, s)
        \/ <<StatusOf(connections, s), StatusOf(connections', s)>> \in StatusEdges]_vars

\* C15: no session queue is ever longer than maxQueueSize, and a sendMessage
\* call for a session whose queue already holds maxQueueSize messages adds
\* nothing to the queue and, for a valid message of either priority, throws
\* the queue-full error.
QueueBounded ==
  /\ [](\A s \in Sessions : Len(messageQueues[s]) <= MaxQueueSize)
  /\ [][\A s \in Sessions :
          Len(messageQueues[s]) >= MaxQueueSize =>
            /\ (sendResult'.res # "none" /\ sendResult'.sessionId = s)
                  => sendResult'.res # "queued" /\ messageQueues' = messageQueues
            /\ \A to \in Recipients, len \in BodyLengths, p \in Priorities :
                  (ValidateInputs(to, len) = "ok" /\ SendMessageFails(s, to, len, p))
                    => sendResult'.res = "queue_full"]_vars

\* a valid message was refused on a full queue
EnqueueOnFullQueue ==
  \E s \in Sessions :
    /\ Len(messageQueues[s]) = MaxQueueSize
    /\ sendResult.sessionId = s
    /\ sendResult.res = "queue_full"

\* C16: within one session messages of equal priority are handed to the
\* transport in the order of their enqueues (ids are handed out in that
\* order): when a message is handed to the transport for the first time, no
\* earlier message of the same session and priority is still queued without
\* ever having been handed over.
FifoWithinPriority ==
  [][\A i, j \in MsgIds :
        (/\ i < j
         /\ tries[j] = 0 /\ tries'[j] = 1
         /\ msgs'[i].sessionId = msgs'[j].sessionId
         /\ msgs'[i].priority = msgs'[j].priority)
        => ~(/\ \E s \in Sessions : i \in Range(messageQueues'[s])
             /\ tries'[i] = 0)]_vars

\* C17, the part of it that finite runs decide: on a connected, unpaused
\* session whose adapter sends all succeed, a message that has not expired
\* leaves its queue only marked sent; a message that leaves it otherwise is
\* never handed to the adapter and never marked sent afterwards.
LeavesQueueSent ==
  [][\A id \in MsgIds :
        (/\ InQueue(id)
         /\ \A s \in Sessions : id \notin Range(messageQueues'[s])
         /\ ~IsExpired(msgs[id], now))
        => msgs'[id].status = "sent"]_vars

\* C18: from a pauseSession(id) call until the next resumeSession(id) call no
\* delivery attempt of a message of id begins, whether or not the session had
\* a message enqueued before the pause and whether or not messages are
\* enqueued while it is paused.
NoAttemptWhilePaused ==
  [][\A s \in Sessions, id \in MsgIds :
        (pauseCalled[s] /\ pauseCalled'[s] /\ msgs'[id].sessionId = s)
        => tries'[id] = tries[id]]_vars

EnqueueErrors == {"recipient", "body", "too_long", "not_found", "queue_full"}

\* C19: a sendMessage call with an empty recipient, an empty body, a body
\* longer than the cap, a session the ConnectionManager does not know or a
\* full queue throws the matching error, and a call that throws leaves the
\* queues, the messages, the rate limiters, the status entries and the drain
\* loops as they were: it starts no drain loop.
FailedEnqueueChangesNothing ==
  [][/\ sendResult'.res \in EnqueueErrors
          => UNCHANGED <<messageQueues, msgs, rateLimiters, processingStatus, loops>>
     /\ \A s \in Sessions, to \in Recipients, len \in BodyLengths, p \in Priorities :
          SendMessageFails(s, to, len, p) =>
            sendResult'.res =
              IF to = "" THEN "recipient"
              ELSE IF len = 0 THEN "body"
              ELSE IF len > MaxMessageLength THEN "too_long"
              ELSE IF GetSessionStatus(s) = "not_found" THEN "not_found"
              ELSE "queue_full"]_vars

\* an enqueue was refused while a drain loop was at work on a queue
EnqueueRefusedWhileDraining ==
  /\ sendResult.res \in EnqueueErrors
  /\ \E s \in Sessions : messageQueues[s] # <<>> /\ Running(s) # {}

\* C20: a sendImmediateMessage call for a session that is present with a
\* status other than connected throws the not-connected error, hands nothing
\* to the transport adapter, does not raise the count of the rate limiter
\* and leaves the queues alone.
ImmediateNeedsConnected ==
  [][\A s \in Sessions :
        (/\ GetSessionStatus(s) \notin {"connected", "not_found"}
         /\ sendResult'.sessionId = s
         /\ sendResult'.res \in {"rate_limit", "not_connected", "not_found"})
        => /\ sendResult'.res = "not_connected"
           /\ immCalls' = immCalls
           /\ rateLimiters'[s].count <= rateLimiters[s].count
           /\ messageQueues' = messageQueues]_vars

(***************************************************************************)
(* Properties of the cache of pairing codes                                *)
(***************************************************************************)
\* the formats getQRCode accepts
SupportedFormats == {"dataURL", "data-url", "buffer", "base64", "ascii", "original", "all"}

\* what a read of a record stored for payload p is to return in format f
Derived(p, f) ==
  LET str == IF p.url # "" THEN p.url ELSE p.base64
      image == [dataURL |-> <<"data:image/png;base64,", <<"base64", <<"png", str>>>>>>,
                base64 |-> <<"base64", <<"png", str>>>>,
                buffer |-> <<"png", str>>]
  IN CASE f \in {"dataURL", "data-url"} -> image.dataURL
       [] f = "buffer" -> image.buffer
       [] f = "base64" -> image.base64
       [] f = "ascii" -> p.ascii
       [] f = "original" -> p
       [] f = "all" -> [images |-> image, original |-> p]

\* C21: a store writes a record holding the payload and the attempts value of
\* its pairing event; a read of a record that has not expired returns, for
\* every supported format, the data derived from that payload and the same
\* attempts value; a read after expiresAt returns null and removes the
\* record from the cache.
PairingRoundTrip ==
  [][/\ \A j \in qrPending :
          QrRendered(j, TRUE) =>
            /\ qrCache'[j.sessionId].present
            /\ qrCache'[j.sessionId].original = j.original
            /\ qrCache'[j.sessionId].attempts = j.attempts
     /\ \A s \in Sessions, f \in SupportedFormats :
          (GetQRCode(s, f) /\ qrCache[s].present) =>
            IF now <= qrCache[s].expiresAt
            THEN /\ qrResult'.res = "data"
                 /\ qrResult'.attempts = qrCache[s].attempts
                 /\ qrResult'.data = Derived(qrCache[s].original, f)
                 /\ qrCache' = qrCache
            ELSE /\ qrResult'.res = "null"
                 /\ ~qrCache'[s].present]_vars

\* the pairing code of a second pairing event was read back
PairingCodeRead ==
  /\ qrResult.res = "data"
  /\ qrResult.format = "base64"
  /\ qrResult.attempts > 1

\* C22: a read with a format getQRCode does not support fails with an error
\* outcome that differs from the null of an absent or expired record, and
\* leaves the cache as it was (stated here for a record that is present and
\* has not expired).
UnsupportedFormatFails ==
  [][\A s \in Sessions, f \in QrFormats \ SupportedFormats :
        (GetQRCode(s, f) /\ qrCache[s].present /\ now <= qrCache[s].expiresAt)
        => /\ qrResult'.res = "error"
           /\ qrCache' = qrCache]_vars

\* C30: the record cached for a session is the one of its most recent
\* pairing event: while a record is cached for a session, a store never
\* replaces it by a record with a smaller attempts value.
PairingAttemptsMonotonic ==
  [][\A s \in Sessions :
        (qrCache[s].present /\ qrCache'[s].present)
        => qrCache'[s].attempts >= qrCache[s].attempts]_vars

(***************************************************************************)
(* Further properties of the outbound queue                                *)
(***************************************************************************)
\* C23: a message leaves its queue only by its own successful delivery, by
\* its own exhaustion of attempts, by its own expiry or by a clear: the
\* message the drain loop removes after an attempt is the attempted one.
RemovedIsAttempted ==
  [][\A id \in MsgIds :
        (InQueue(id) /\ \A s \in Sessions : id \notin Range(messageQueues'[s]))
        => \/ msgs'[id].status = "sent"
           \/ msgs'[id].status = "failed" /\ msgs'[id].attempts >= msgs'[id].maxRetries
           \/ gone'[id] \in {"cleared", "swept", "dropped"}]_vars

\* C24: a message whose delivery succeeded is never handed to the transport
\* adapter again.
SentOnce ==
  [][\A id \in MsgIds : msgs[id].status = "sent" => tries'[id] = tries[id]]_vars

\* C25: while a drain loop waits to retry a message that is still queued, no
\* other message of the session is handed to the transport: the step that
\* ends the wait attempts that same message.
RetrySameMessage ==
  [][\A s \in Sessions, l \in LoopIds, id \in MsgIds :
        (/\ loops[s][l].pc = "retry"
         /\ id # loops[s][l].cur
         /\ loops[s][l].cur \in Range(messageQueues'[s])
         /\ msgs'[id].sessionId = s)
        => tries'[id] = tries[id]]_vars

NoStrandedMessage ==
  \A s \in Sessions :
    (~processingStatus[s].paused /\ (Running(s) = {} \/ ~processingStatus[s].active))
      => messageQueues[s] = <<>>

\* a session whose loop has ended after draining the queue: not paused, no
\* loop running, and messages it accepted have been sent
IdleAfterDrain ==
  \E s \in Sessions :
    /\ processingStatus[s].exists
    /\ ~processingStatus[s].paused /\ ~processingStatus[s].active
    /\ Running(s) = {}
    /\ messageQueues[s] = <<>>
    /\ \E id \in MsgIds : msgs[id].sessionId = s /\ msgs[id].status = "sent"

\* C28: once a session has been removed from the live map, no queued
\* outbound message, no pairing record and no active inbound listener
\* remains for its id.
ClosedLeavesNothing ==
  \A s \in Sessions :
    (s \in closedIds /\ ~connections[s].present)
      => /\ messageQueues[s] = <<>>
         /\ ~qrCache[s].present
         /\ s \notin activeListeners

\* the sessions with no createSession, reconnectSession or closeSession call
\* in progress
Quiescent == {s \in Sessions : \A c \in CallIds : calls[c].sessionId # s}

\* C29: whenever no createSession, reconnectSession or closeSession call is
\* in progress for a session and its status is connected, the adapter holds
\* an instance for it; and no session at rest in status error after
\* overlapping reconnectSession calls has an instance registered.
ConnectedHasInstance ==
  \A s \in Quiescent :
    /\ (connections[s].present /\ connections[s].status = "connected")
         => instances[s].present
    /\ (connections[s].present /\ connections[s].status = "error"
         /\ lastResult.op = "reconnect" /\ lastResult.sessionId = s)
         => ~instances[s].present

\* C34: a queued message has status failed only when its attempts have
\* reached its maximum; a message waiting for a retry is not in status
\* failed, so that clearQueue with the filter failed cannot remove it.
FailedIsTerminal ==
  \A s \in Sessions : \A id \in Range(messageQueues[s]) :
    msgs[id].status = "failed" => msgs[id].attempts >= msgs[id].maxRetries

\* C35: the queuePosition returned by sendMessage is the 1-based position
\* of the new message in the queue at the moment it was inserted: 1 for a
\* high-priority message, the new length of the queue for a normal one.
QueuePositionIsIndex ==
  [][\A s \in SenderSessions, p \in Priorities, b \in SkipChoices :
        SendMessage(s, p, MaxRetries, b)
          => sendResult'.queuePosition =
               IF p = "high" THEN 1 ELSE Len(messageQueues[s]) + 1]_vars

\* C36: the wait before the retry that follows the n-th failed attempt of a
\* message is the configured retry delay times retryMultiplier^(n-1).
RetryWaitFromRetryDelay ==
  [][\A s \in Sessions, l \in LoopIds :
        (loops[s][l].pc = "sending" /\ loops'[s][l].pc = "retry")
          => loops'[s][l].wakeAt =
               now + RetryDelay * Pow(RetryMultiplier, msgs'[loops[s][l].cur].attempts - 1)]_vars

\* C32: a session id is reusable through the facade: a createSession for an
\* id whose closeSession has completed, or whose previous createSession has
\* just failed at the adapter, is not rejected as already existing when
\* the session limit is not reached.
SessionIdReusable ==
  [][\A s \in Sessions, a \in BOOLEAN :
        (/\ CreateSession(s, TRUE, a)
         /\ s \in Quiescent
         /\ ~connections[s].present
         /\ ~SessionLimitReached(connections)
         /\ \/ s \in closedIds
            \/ lastResult.op = "create" /\ lastResult.sessionId = s
                 /\ lastResult.res = "connection")
        => lastResult'.res # "exists"]_vars

\* C39: the idle sweep closes a session only if its status is error and
\* its last activity is older than the session timeout (never a session in
\* status connected, qr_ready, creating or reconnecting), and a session
\* found in error and idle past the timeout leaves that state: it is removed
\* from the live map unless its status is changed by somebody else.
SweepClosesIdleErrors ==
  /\ [][PerformCleanup =>
          \A s \in Sessions :
            connections'[s] # connections[s]
              => /\ connections[s].status = "error"
                 /\ connections[s].status \notin
                      {"connected", "qr_ready", "creating", "reconnecting"}
                 /\ now - connections[s].lastActivity > SessionTimeout]_vars
  /\ \A s \in Sessions :
       (connections[s].present /\ connections[s].status = "error"
          /\ now - connections[s].lastActivity > SessionTimeout)
         ~> (~connections[s].present
               \/ connections[s].status \notin {"error", "closing"})

\* the sweep has removed a session that was idle and in error
SweptAway ==
  \E s \in Sessions :
    /\ s \in closedIds
    /\ ~connections[s].present
    /\ now > SessionTimeout

\* what the sender holds for one session
SessionState(s) ==
  <<messageQueues[s], rateLimiters[s], processingStatus[s], loops[s],
    [id \in MsgIds |-> IF msgs[id].sessionId = s THEN <<msgs[id], tries[id]>> ELSE <<>>]>>

\* C37: sessions are isolated: a step that changes anything of one session
\* (a failed send, a retry, a rate-limit suspension, a pause) changes
\* nothing in the queue, rate limiter, attempts counters or drain loop of
\* another session, and a timer of a session that is due can always fire,
\* whatever the other sessions are doing.
SessionsIsolated ==
  /\ [][\A a \in Sessions, b \in Sessions :
          (a # b /\ SessionState(a)' # SessionState(a))
            => SessionState(b)' = SessionState(b)]_vars
  /\ [](\A b \in Sessions, l \in LoopIds :
          (loops[b][l].pc \in {"delay", "retry", "ratewait"} /\ now >= loops[b][l].wakeAt)
            => ENABLED TimerFires(b, l))

\* one session waits for a retry or for its rate limit while the drain loop
\* of another hands a message to the transport
BusyBesideStalled ==
  \E a \in Sessions, b \in Sessions, l \in LoopIds, k \in LoopIds :
    /\ a # b
    /\ loops[a][l].pc \in {"retry", "ratewait"}
    /\ loops[b][k].pc = "sending"

\* C40: shouldProcess is true exactly when none of the enabled filters
\* matches the message, each of the four filters (broadcast, group, status,
\* non-text) being switched by the configuration.
FiltersIndependent ==
  verdict.present =>
    (verdict.processed <=>
       ~ \/ env.IGNORE_BROADCAST = "true" /\ verdict.message.broadcast
         \/ env.IGNORE_GROUPS = "true" /\ verdict.message.isGroupMsg
         \/ env.IGNORE_STATUS = "true" /\ IsStatusChat(verdict.message.chatId)
         \/ env.IGNORE_NON_TEXT = "true" /\ verdict.message.type # "chat")

\* C31: the store receives at most one INSERT of a user record per
\* normalized phone number, whatever the number of inbound messages of that
\* sender and however their handling overlaps.
OneInsertPerPhone ==
  \A p \in Phones : userInserts[p] <= 1

\* C33: an auto-response passes the sender's rate limit: the step that hands
\* it to the adapter happens only while the session's limiter admits a send,
\* and the step in which the adapter reports it sent counts it in the
\* limiter.
AutoResponseRateLimited ==
  [][\A h \in HandlerIds :
       LET s == handlers[h].sessionId
       IN /\ (handlers[h].pc = "responseDelay" /\ handlers'[h].pc = "respond")
               => CheckRateLimit(rateLimiters[s], now).ok
          /\ (handlers[h].pc = "respond" /\ handlers'[h].pc = "saveReply")
               => rateLimiters'[s] = RecordSentMessage(rateLimiters[s], now)]_vars

\* C38: between stopListening(id) and the next startListening(id) the
\* handling of an inbound message of id, begun before the stop or not, writes
\* no user record, sends no auto-response and saves no reply; stopListening
\* leaves the user cache and the other sessions' listeners as they were.
StoppedListenerIsSilent ==
  /\ [][\A h \in HandlerIds :
          (/\ handlers[h].pc # "none"
           /\ handlers[h].sessionId \notin activeListeners
           /\ handlers'[h] # handlers[h])
          => handlers'[h].pc \notin {"insertUser", "updateUser", "respond", "saveReply"}]_vars
  /\ [][\A s \in Sessions :
          StopListening(s) => /\ usersCache' = usersCache
                              /\ activeListeners' = activeListeners \ {s}]_vars

====
